---- MODULE Spec2Model ----
(***************************************************************************)
(* The booking transaction protocol of the Flask API server                *)
(* (src/server.py, create_booking) over the schema and seed data of        *)
(* src/init_db.py.                                                         *)
(*                                                                         *)
(* The store is modelled as InnoDB behaves for the statements the code     *)
(* issues: a committed state (seat flags, booking rows), one transaction   *)
(* per request with its own uncommitted writes, exclusive row locks taken  *)
(* by SELECT ... FOR UPDATE and released by COMMIT / ROLLBACK, and the     *)
(* UNIQUE constraints of the bookings table.                               *)
(*                                                                         *)
(* Strings are sequences of one-character strings so that strip(),         *)
(* upper(), hex() and slicing are computed, not assumed.                   *)
(***************************************************************************)
EXTENDS Integers, Sequences, FiniteSets, TLC

\* ------------------------------------------------------------------ bounds

\* Number of concurrent booking requests (one request per worker thread).
NumProcs == 2

\* Number of distinct values secrets.token_bytes(12) can return.
NumTokens == 2

\* Seed data, reduced: init_db seeds 5 flights of 10 rows and 6 columns.
NumFlights == 2

NumRows == 2

NumCols == 2

Procs == 1..NumProcs

\* ------------------------------------------------------------ Python values

\* A JSON value of the request body: an integer, a string, or absent/null.
JInt(i) == [ty |-> "int", i |-> i, s |-> <<>>]

JStr(s) == [ty |-> "str", i |-> 0, s |-> s]

JNone == [ty |-> "none", i |-> 0, s |-> <<>>]

\* Python truthiness, as used by `not data[f]`.
Truthy(v) ==
    CASE v.ty = "int" -> v.i # 0
      [] v.ty = "str" -> v.s # <<>>
      [] OTHER -> FALSE

Digits == <<"0", "1", "2", "3", "4", "5", "6", "7", "8", "9">>

IsDigit(c) == \E k \in 1..10 : Digits[k] = c

DigitVal(c) == (CHOOSE k \in 1..10 : Digits[k] = c) - 1

Whitespace == {" "}

\* A character str.encode('utf-8') rejects (a lone surrogate such as \ud800).
Surrogate == "\\ud800"

RECURSIVE LStrip(_)
LStrip(s) == IF s # <<>> /\ Head(s) \in Whitespace THEN LStrip(Tail(s)) ELSE s

RECURSIVE RStrip(_)
RStrip(s) ==
    IF s # <<>> /\ s[Len(s)] \in Whitespace
    THEN RStrip(SubSeq(s, 1, Len(s) - 1))
    ELSE s

\* str.strip()
Strip(s) == RStrip(LStrip(s))

LowerChars == <<"a", "b", "c", "d", "e", "f">>

UpperChars == <<"A", "B", "C", "D", "E", "F">>

UpperChar(c) ==
    IF \E k \in 1..6 : LowerChars[k] = c
    THEN UpperChars[CHOOSE k \in 1..6 : LowerChars[k] = c]
    ELSE c

\* str.upper() (on the characters the model uses)
Upper(s) == [k \in 1..Len(s) |-> UpperChar(s[k])]

RECURSIVE DecStr(_)
\* str(n) for n >= 0
DecStr(n) == IF n < 10 THEN <<Digits[n + 1]>> ELSE DecStr(n \div 10) \o <<Digits[(n % 10) + 1]>>

RECURSIVE DecVal(_)
DecVal(s) == IF s = <<>> THEN 0 ELSE 10 * DecVal(SubSeq(s, 1, Len(s) - 1)) + DigitVal(s[Len(s)])

\* int(v) succeeds on an int and on a string of decimal digits (surrounding
\* whitespace allowed); otherwise it raises ValueError / TypeError.
IntOk(v) ==
    \/ v.ty = "int"
    \/ /\ v.ty = "str"
       /\ Strip(v.s) # <<>>
       /\ \A k \in 1..Len(Strip(v.s)) : IsDigit(Strip(v.s)[k])

IntOf(v) == IF v.ty = "int" THEN v.i ELSE DecVal(Strip(v.s))

\* str(v)
StrOf(v) ==
    CASE v.ty = "int" -> DecStr(v.i)
      [] v.ty = "str" -> v.s
      [] OTHER -> <<"N", "o", "n", "e">>

\* s.encode('utf-8') raises UnicodeEncodeError on a lone surrogate.
Encodable(s) == \A k \in 1..Len(s) : s[k] # Surrogate


\* ------------------------------------------------- schema and seed (init_db)

ColNames == <<"A", "B", "C", "D", "E", "F">>

\* Seeded flights: ids are AUTO_INCREMENT from 1.
FlightIds == 1..NumFlights

\* Seeded seats: for each flight, for each row, for each column, in order;
\* ids are AUTO_INCREMENT from 1.
SeatIds == 1..(NumFlights * NumRows * NumCols)

SeatFlight(id) == ((id - 1) \div (NumRows * NumCols)) + 1

SeatRowNo(id) == (((id - 1) \div NumCols) % NumRows) + 1

SeatColNo(id) == ((id - 1) % NumCols) + 1

SeatClass(r) == IF r <= 2 THEN "first" ELSE IF r <= 4 THEN "business" ELSE "economy"

\* The immutable columns of a seats row.
SeatRow(id) ==
    [id |-> id,
     flight_id |-> SeatFlight(id),
     row_num |-> DecStr(SeatRowNo(id)),
     col_num |-> <<ColNames[SeatColNo(id)]>>,
     class |-> SeatClass(SeatRowNo(id))]

\* "Booking sample seats": flight 1, row '1', columns 'A' and 'B' are flagged
\* booked by a bare UPDATE; no bookings row is inserted for them.
PreBooked(id) ==
    /\ SeatRow(id).flight_id = 1
    /\ SeatRow(id).row_num = <<"1">>
    /\ SeatRow(id).col_num \in {<<"A">>, <<"B">>}

\* UNIQUE KEY unique_booking (seat_id) of the bookings table.
unique_booking(rows, row) == \A b \in rows : b.seat_id # row.seat_id

\* Faulty variant: the column without its UNIQUE constraint.
pqc_ref_not_unique(rows, row) == TRUE

\* pqc_ref VARCHAR(100) NOT NULL UNIQUE of the bookings table.
unique_pqc_ref(rows, row) == \A b \in rows : b.pqc_ref # row.pqc_ref

\* CONSTRAINT fk_booking_flight / fk_booking_seat.
ForeignKeysOk(row) == row.flight_id \in FlightIds /\ row.seat_id \in SeatIds


\* ------------------------------------------------- bytes, hex and base64

\* Length of a SHA-512 / HMAC-SHA512 digest, scaled down from 64 bytes.
DigestLen == 2

\* Number of copies of HMAC + SHA512(public key) in a mock signature, scaled
\* down from 26.
MockRepeat == 2

\* Number of values a call to secrets.token_bytes or a key generation can give.
NumKeys == 2

\* A byte is known by what it was computed from: byte k of the `kind` of `of`.
\* Digests are taken to be free of collisions.
Byte(kind, of, k) == [kind |-> kind, of |-> of, k |-> k]

\* n bytes computed from `of`: a digest, a key, a random string.
Bytes(kind, of, n) == [k \in 1..n |-> Byte(kind, of, k)]

\* A byte that differs from b.
Flip(b) == [kind |-> "flipped", of |-> <<b>>, k |-> b.k]

\* A hexadecimal digit: the high or the low half of a byte.
HexDigit(b, half) == [b |-> b, half |-> half]

\* A character that is no hexadecimal digit.
NotHex == [b |-> Byte("char", <<"z">>, 0), half |-> 0]

RECURSIVE bytes_to_hex(_)
\* data.hex(): two digits per byte.
bytes_to_hex(data) ==
    IF data = <<>>
    THEN <<>>
    ELSE <<HexDigit(Head(data), 1), HexDigit(Head(data), 2)>> \o bytes_to_hex(Tail(data))

\* bytes.fromhex raises ValueError on an odd number of digits and on a
\* character that is no hexadecimal digit.
hex_to_bytes_raises(hex_string) ==
    \/ Len(hex_string) % 2 = 1
    \/ \E k \in 1..Len(hex_string) : hex_string[k].half = 0

\* bytes.fromhex: each pair of digits gives a byte; the two halves of one
\* byte give that byte back, any other pair a different byte.
hex_to_bytes(hex_string) ==
    [k \in 1..(Len(hex_string) \div 2) |->
        LET hi == hex_string[2 * k - 1]
            lo == hex_string[2 * k]
        IN IF hi.b = lo.b /\ hi.half = 1 /\ lo.half = 2 THEN hi.b ELSE Flip(hi.b)]

\* data[:n]
Prefix(data, n) == SubSeq(data, 1, IF n < Len(data) THEN n ELSE Len(data))

RECURSIVE Repeat(_, _)
\* data * n
Repeat(data, n) == IF n = 0 THEN <<>> ELSE data \o Repeat(data, n - 1)

\* A base64 character: it stands for a byte (scaled from 4 characters for 3
\* bytes), or is the padding '='.
B64Unit(b) == [b |-> b, half |-> 3]

B64Pad == [b |-> Byte("char", <<"=">>, 0), half |-> 0]

\* base64.b64encode(data).decode('utf-8'): the text is padded to whole groups.
b64encode(data) ==
    [k \in 1..Len(data) |-> B64Unit(data[k])] \o [k \in 1..((3 - (Len(data) % 3)) % 3) |-> B64Pad]

\* base64.b64decode raises binascii.Error on incorrect padding.
b64decode_raises(text) == Len(text) % 3 # 0

IsB64Unit(c) == c.half = 3

\* A character of the base64 alphabet: one written by b64encode, or a
\* hexadecimal digit.
IsB64Char(c) == c.half # 0

\* base64.b64decode(text): the bytes of the characters before the padding.
\* Characters written by b64encode give their bytes back; hexadecimal digits
\* read as base64 give bytes that are not the bytes they are digits of.
b64decode(text) ==
    LET chars == SelectSeq(text, IsB64Char)
    IN [k \in 1..Len(chars) |->
           IF IsB64Unit(chars[k])
           THEN chars[k].b
           ELSE Byte("base64", <<chars[k].b>>, chars[k].half)]

\* str.encode('utf-8'), one byte per character.
encode_utf8(text) == [k \in 1..Len(text) |-> Byte("utf8", <<text[k]>>, 1)]

\* bytes.decode('utf-8') raises UnicodeDecodeError on bytes that encode no text.
decode_utf8_raises(data) == \E k \in 1..Len(data) : data[k].kind # "utf8"

\* bytes.decode('utf-8')
decode_utf8(data) == [k \in 1..Len(data) |-> data[k].of[1]]

\* sha256_hash(data): hexdigest of the UTF-8 encoding.
sha256_hash(data) == bytes_to_hex(Bytes("sha256", data, DigestLen))

\* Length of the Kyber shared secret and of the AES key, scaled from 32 bytes.
SecretLen == 1

\* Length of the GCM authentication tag, scaled from 16 bytes.
TagLen == 1

\* Length of the GCM nonce, scaled from 12 bytes.
NonceLen == 1

\* Length of the Kyber512 ciphertext (the encapsulated key), scaled from 768.
CapsuleLen == 2

\* Length of the random padding of a simulated signature, scaled from 3000.
PaddingLen == 2

\* Number of bytes the first 80 characters of a base64 text stand for,
\* scaled from 60: fewer than a digest and than a capsule.
PreviewLen == 1

\* The GCM tag of a plaintext under a key and a nonce.
GcmTag(key, nonce, plaintext) == Bytes("gcm-tag", <<key, nonce, plaintext>>, TagLen)

\* The AES-GCM ciphertext of a plaintext under a key and a nonce: one byte
\* for each byte of the plaintext.
AesGcm(key, nonce, plaintext) ==
    [k \in 1..Len(plaintext) |-> Byte("aes-gcm", <<key, nonce, <<plaintext[k]>>>>, k)]

\* bytes(a ^ b for a, b in zip(left, right))
Xor(left, right) ==
    [k \in 1..(IF Len(left) < Len(right) THEN Len(left) ELSE Len(right)) |->
        Byte("xor", <<left[k], right[k]>>, k)]

\* ------------------------------------------------ quantum trinity (server.py)

HexChars == <<"0", "1", "2", "3", "4", "5", "6", "7", "8", "9", "a", "b", "c", "d", "e", "f">>

RECURSIVE Hex(_)
\* bytes.hex(): two lower-case hexadecimal digits per byte.
Hex(bytes) ==
    IF bytes = <<>>
    THEN <<>>
    ELSE <<HexChars[(Head(bytes) \div 16) + 1], HexChars[(Head(bytes) % 16) + 1]>> \o Hex(Tail(bytes))

\* The i-th value secrets.token_bytes(12) can return: twelve bytes.
TokenBytes(i) == [k \in 1..12 |-> (i * 37 + k * 11) % 256]

Tokens == {TokenBytes(i) : i \in 1..NumTokens}

\* Faulty variant: the hexadecimal digits as bytes.hex() gives them, without
\* .upper().
generate_quantum_entropy_lower(random_bytes) ==
    LET hex_str == Hex(random_bytes)
    IN <<"Q", "R", "E", "F", "-">> \o SubSeq(hex_str, 1, 4) \o <<"-">>
         \o SubSeq(hex_str, 5, 8) \o <<"-">> \o SubSeq(hex_str, 9, 12)

\* Format: QREF-XXXX-XXXX-XXXX, from the first 12 of the 24 hex digits.
generate_quantum_entropy(random_bytes) ==
    LET hex_str == Upper(Hex(random_bytes))
    IN <<"Q", "R", "E", "F", "-">> \o SubSeq(hex_str, 1, 4) \o <<"-">>
         \o SubSeq(hex_str, 5, 8) \o <<"-">> \o SubSeq(hex_str, 9, 12)

\* The references generate_quantum_entropy() can return.
QuantumRefs == {generate_quantum_entropy(random_bytes) : random_bytes \in Tokens}

\* ------------------------------------------------------------- the requests

Req(f, r, c, n, d) == [json |-> TRUE, flight_id |-> f, row |-> r, col |-> c, name |-> n, passport |-> d]

NoBody == [json |-> FALSE, flight_id |-> JNone, row |-> JNone, col |-> JNone, name |-> JNone, passport |-> JNone]

Ada == JStr(<<"A", "d", "a">>)

Blank == JStr(<<" ">>)

Doc == JStr(<<" ", "P", "7">>)

\* The request bodies the clients send: for a free seat, for a second free
\* seat (flight id as a string, row as a number, column in lower case, a name
\* of white space), for a pre-booked seat, for a missing seat and a missing
\* flight, and the malformed ones.
Requests ==
    { Req(JInt(1), JStr(<<"2">>), JStr(<<"A">>), Ada, Doc),
      Req(JStr(<<"1">>), JInt(2), JStr(<<"b">>), Blank, Doc),
      Req(JInt(1), JStr(<<"1">>), JStr(<<"A">>), Ada, Doc),
      Req(JInt(1), JStr(<<"9">>), JStr(<<"A">>), Ada, Doc),
      Req(JInt(9), JStr(<<"2">>), JStr(<<"A">>), Ada, Doc),
      Req(JInt(1), JStr(<<"2">>), JStr(<<"A">>), JStr(<<>>), Doc),
      Req(JStr(<<"x">>), JStr(<<"2">>), JStr(<<"A">>), Ada, Doc),
      Req(JInt(1), JStr(<<"2">>), JStr(<<"A">>), JInt(5), Doc),
      Req(JInt(1), JStr(<<"2">>), JStr(<<"A">>), JStr(<<Surrogate>>), Doc),
      Req(JInt(1), JStr(<<"2">>), JStr(<<"A">>), Ada, JStr(<<Surrogate>>)),
      NoBody }

\* ------------------------------------------------------------------- state

VARIABLES
    is_booked,   \* committed seats.is_booked, by seat id
    bookings,    \* committed rows of the bookings table
    next_id,     \* AUTO_INCREMENT counter of bookings.id
    locks,       \* per transaction: the record locks it holds
    tx,          \* per transaction: whether it is open, and its uncommitted writes
    pc,          \* per request: the statement create_booking is about to run
    req,         \* per request: the JSON body
    loc,         \* per request: the local variables of create_booking
    response,    \* per request: what was returned to the caller
    hist,        \* per request: the steps it has run, in order (history)
    flipped_by,  \* per seat: the request whose commit set the flag (history)
    reply,       \* what the last call that writes nothing returned, with its input
    flags        \* the availability flags config.py sets when it is imported

vars ==
    <<is_booked, bookings, next_id, locks, tx, pc, req, loc, response, hist, flipped_by,
      reply, flags>>

NoTx == [active |-> FALSE, upd |-> {}, ins |-> {}]

NoKyber == [capsule |-> <<>>, encrypted_data |-> <<>>, nonce |-> <<>>]

NoSignature == [signature |-> <<>>, data_hash |-> <<>>]

NoLoc ==
    [flight_id |-> 0, row_num |-> <<>>, col_num |-> <<>>, passenger_name |-> <<>>,
     passport |-> <<>>, seat_id |-> 0, seat_is_booked |-> FALSE, qrng_ref |-> <<>>,
     kyber_result |-> NoKyber, dilithium_result |-> NoSignature, booking_id |-> 0]

NoResponse ==
    [status |-> 0, booking_id |-> 0, booking_ref |-> <<>>,
     signature_preview |-> <<>>, capsule_preview |-> <<>>]

NoTicket == [booking_ref |-> <<>>, passenger |-> <<>>, seat |-> <<>>]

NoStatistics == [total_seats |-> 0, booked_seats |-> 0, available_seats |-> 0]

NoReply ==
    [op |-> "none", arg |-> JNone, status |-> 0, success |-> FALSE, verified |-> FALSE,
     error |-> "", ticket |-> NoTicket, seat_map |-> <<>>, statistics |-> NoStatistics,
     database |-> "unknown"]

\* Lines 19-40 of config.py and 24-29 of server.py: each flag is True when
\* the import succeeds.
Flags ==
    [LIBOQS_AVAILABLE : BOOLEAN, QISKIT_AVAILABLE : BOOLEAN, PYCRYPTODOME_AVAILABLE : BOOLEAN,
     CRYPTO_AVAILABLE : BOOLEAN]

\* Lines 24-29 of server.py: CRYPTO_AVAILABLE is True when the cryptography
\* package is imported.  server.py puts quantum_service on its path and
\* imports nothing from it: in the API server no flag of config.py is set.
ServerFlags ==
    {f \in Flags : ~f.LIBOQS_AVAILABLE /\ ~f.QISKIT_AVAILABLE /\ ~f.PYCRYPTODOME_AVAILABLE}

\* A process of quantum_service does not run server.py.
QuantumFlags == {f \in Flags : ~f.CRYPTO_AVAILABLE}

\* The database as init_db leaves it, and no request in flight.
StoreInit ==
    /\ is_booked = [id \in SeatIds |-> PreBooked(id)]
    /\ bookings = {}
    /\ next_id = 1
    /\ locks = [p \in Procs |-> {}]
    /\ tx = [p \in Procs |-> NoTx]
    /\ pc = [p \in Procs |-> "idle"]
    /\ req = [p \in Procs |-> NoBody]
    /\ loc = [p \in Procs |-> NoLoc]
    /\ response = [p \in Procs |-> NoResponse]
    /\ hist = [p \in Procs |-> <<>>]
    /\ flipped_by = [id \in SeatIds |-> 0]

\* The API server has started against the initialised database.
Init ==
    /\ StoreInit
    /\ reply = NoReply
    /\ flags \in ServerFlags

\* ------------------------------------- kyber_encrypt, dilithium_sign (server.py)

\* passport_data.encode('utf-8') is the only step of kyber_encrypt that
\* depends on the input; it raises on an unencodable string.
kyber_encrypt_raises(passport_data) == ~Encodable(passport_data)

\* hashlib.sha256(b"QUANTUM_MOCK_KYBER_KEY").digest()
mock_key_mask == Bytes("sha256", <<"QUANTUM_MOCK_KYBER_KEY">>, SecretLen)

\* Faulty variant: the masked key is put at the head of the capsule.
CapsuleKeyFirst(capsule_data, masked_key) == b64encode(masked_key \o capsule_data)

\* Line 135: capsule = base64.b64encode(capsule_data + masked_key)
Capsule(capsule_data, masked_key) == b64encode(capsule_data \o masked_key)

\* Line 107: aes_key = secrets.token_bytes(32)
AesKey == Bytes("token_bytes", <<"aes_key">>, SecretLen)

\* Lines 96-140: kyber_encrypt.  The values secrets.token_bytes returns are
\* known by what they are drawn for.
kyber_encrypt(passport_data) ==
    LET aes_key == AesKey
        nonce == Bytes("token_bytes", <<"nonce">>, NonceLen)
        data_bytes == encode_utf8(passport_data)
        key_extended ==
            [k \in 1..Len(data_bytes) |-> aes_key[((k - 1) % SecretLen) + 1]]
        encrypted ==
            IF flags.CRYPTO_AVAILABLE
            THEN AesGcm(aes_key, nonce, data_bytes) \o GcmTag(aes_key, nonce, data_bytes)
            ELSE Xor(data_bytes, key_extended)
        capsule_data == Bytes("token_bytes", <<"capsule_data">>, CapsuleLen)
        masked_key == Xor(aes_key, mock_key_mask)
    IN [capsule |-> Capsule(capsule_data, masked_key),
        encrypted_data |-> bytes_to_hex(encrypted),
        nonce |-> bytes_to_hex(nonce)]

\* message = f"{booking_ref}|{seat_id}|{flight_id}|{passenger_name}"
TicketMessage(booking_ref, seat_id, flight_id, passenger_name) ==
    booking_ref \o <<"|">> \o DecStr(seat_id) \o <<"|">> \o DecStr(flight_id)
        \o <<"|">> \o passenger_name

\* message.encode('utf-8') raises on an unencodable passenger name.
dilithium_sign_raises(booking_ref, seat_id, flight_id, passenger_name) ==
    ~Encodable(TicketMessage(booking_ref, seat_id, flight_id, passenger_name))

\* Line 158: mock_private_key = hashlib.sha256(b"QUANTUM_DILITHIUM_PRIVATE_KEY").digest()
dilithium_private_key == Bytes("sha256", <<"QUANTUM_DILITHIUM_PRIVATE_KEY">>, SecretLen)

\* hmac.new(mock_private_key, message_bytes, hashlib.sha512).digest(), with
\* mock_private_key = sha256(b"QUANTUM_DILITHIUM_PRIVATE_KEY")
TicketHmac(message) ==
    Bytes("hmac-sha512", <<"QUANTUM_DILITHIUM_PRIVATE_KEY">> \o message, DigestLen)

\* Lines 143-180: dilithium_sign; the padding is random.
dilithium_sign(booking_ref, seat_id, flight_id, passenger_name) ==
    LET message == TicketMessage(booking_ref, seat_id, flight_id, passenger_name)
        padding == Bytes("token_bytes", <<"padding">>, PaddingLen)
    IN [signature |-> b64encode(TicketHmac(message) \o padding),
        data_hash |-> sha256_hash(message)]

\* ------------------------------------------------------ the store (InnoDB)

\* Faulty variant: a store whose statements never wait for a lock (tables of
\* an engine without row locks).
NoConflict(p, res) == FALSE

\* A record lock held by another open transaction blocks the statement:
\* "SELECT ... FOR UPDATE locks the row until COMMIT or ROLLBACK".
Conflict(p, res) == \E q \in Procs \ {p} : res \in locks[q]

\* Faulty variant: an abort that undoes by hand, clearing the flag of every
\* seat row the transaction had locked.
TxRollbackClearsFlag(p) ==
    /\ tx' = [tx EXCEPT ![p] = NoTx]
    /\ locks' = [locks EXCEPT ![p] = {}]
    /\ is_booked' = [id \in SeatIds |-> is_booked[id] /\ <<"seats", id>> \notin locks[p]]
    /\ UNCHANGED <<bookings, flipped_by>>

\* conn.rollback(): the uncommitted writes are dropped, the locks released.
TxRollback(p) ==
    /\ tx' = [tx EXCEPT ![p] = NoTx]
    /\ locks' = [locks EXCEPT ![p] = {}]
    /\ UNCHANGED <<is_booked, bookings, flipped_by>>

\* Faulty variant: a transaction that had emptied the bookings table before
\* its INSERT (DELETE FROM bookings).
TxCommitAfterDelete(p) ==
    /\ is_booked' = [id \in SeatIds |-> is_booked[id] \/ id \in tx[p].upd]
    /\ bookings' = tx[p].ins
    /\ flipped_by' = [id \in SeatIds |->
                        IF id \in tx[p].upd /\ ~is_booked[id] THEN p ELSE flipped_by[id]]
    /\ tx' = [tx EXCEPT ![p] = NoTx]
    /\ locks' = [locks EXCEPT ![p] = {}]

\* conn.commit(): the writes become the committed state, the locks are released.
TxCommit(p) ==
    /\ is_booked' = [id \in SeatIds |-> is_booked[id] \/ id \in tx[p].upd]
    /\ bookings' = bookings \cup tx[p].ins
    /\ flipped_by' = [id \in SeatIds |->
                        IF id \in tx[p].upd /\ ~is_booked[id] THEN p ELSE flipped_by[id]]
    /\ tx' = [tx EXCEPT ![p] = NoTx]
    /\ locks' = [locks EXCEPT ![p] = {}]

\* Faulty variant: a lookup by row and column only, WHERE row_num = %s AND
\* col_num = %s.
MatchingSeatsAnyFlight(flight_id, row_num, col_num) ==
    {id \in SeatIds : /\ SeatRow(id).row_num = row_num
                      /\ SeatRow(id).col_num = col_num}

\* Faulty variant: a lookup that takes any seat of the row asked for.
MatchingSeatsAnyCol(flight_id, row_num, col_num) ==
    {id \in SeatIds : /\ SeatRow(id).flight_id = flight_id
                      /\ SeatRow(id).row_num = row_num}

\* The rows WHERE flight_id = %s AND row_num = %s AND col_num = %s selects.
MatchingSeats(flight_id, row_num, col_num) ==
    {id \in SeatIds : /\ SeatRow(id).flight_id = flight_id
                      /\ SeatRow(id).row_num = row_num
                      /\ SeatRow(id).col_num = col_num}

\* ----------------------------------------------------------- create_booking

\* Lines 502 and 506: the first 80 characters of the signature and of the
\* capsule go into the confirmation.
Preview(text) == Prefix(text, PreviewLen)

\* return jsonify(...), status: the locals of the call are gone.  The 201
\* response carries the previews under 'quantum_security'.
Return(p, status, booking_id, booking_ref) ==
    /\ response' = [response EXCEPT ![p] =
                       [status |-> status, booking_id |-> booking_id, booking_ref |-> booking_ref,
                        signature_preview |->
                            IF status = 201 THEN Preview(loc[p].dilithium_result.signature) ELSE <<>>,
                        capsule_preview |->
                            IF status = 201 THEN Preview(loc[p].kyber_result.capsule) ELSE <<>>]]
    /\ pc' = [pc EXCEPT ![p] = "done"]
    /\ loc' = [loc EXCEPT ![p] = NoLoc]

\* A statement of create_booking has run; it is no read-only call.
Log(p, event) ==
    /\ hist' = [hist EXCEPT ![p] = Append(@, event)]
    /\ UNCHANGED <<reply, flags>>

\* Faulty variant: the early return without its conn.rollback().
EarlyReturnNoRollback(p, status) ==
    /\ Return(p, status, 0, <<>>)
    /\ UNCHANGED <<tx, locks, is_booked, bookings, flipped_by>>

\* Faulty variant: not-found and conflict reported as any other failure.
EarlyReturnGeneric(p, status) ==
    /\ TxRollback(p)
    /\ Return(p, 500, 0, <<>>)

\* The 404 and 409 paths: conn.rollback(), then return.
EarlyReturn(p, status) ==
    /\ TxRollback(p)
    /\ Return(p, status, 0, <<>>)

\* Faulty variant: the except clauses call conn.commit() for conn.rollback().
ExceptionReturnCommits(p) ==
    /\ IF tx[p].active THEN TxCommit(p) ELSE UNCHANGED <<tx, locks, is_booked, bookings, flipped_by>>
    /\ Return(p, 500, 0, <<>>)

\* Faulty variant: the except clauses return without conn.rollback().
ExceptionReturnNoRollback(p) ==
    /\ UNCHANGED <<tx, locks, is_booked, bookings, flipped_by>>
    /\ Return(p, 500, 0, <<>>)

\* The except clauses: if conn: conn.rollback(); return 500.
ExceptionReturn(p) ==
    /\ IF tx[p].active THEN TxRollback(p) ELSE UNCHANGED <<tx, locks, is_booked, bookings, flipped_by>>
    /\ Return(p, 500, 0, <<>>)

Required == {"flight_id", "row", "col", "name", "passport"}

\* Faulty variant: missing = [f for f in required if f not in data]
MissingAbsentOnly(data) == {f \in Required : data[f] = JNone}

\* missing = [f for f in required if f not in data or not data[f]]
Missing(data) == {f \in Required : ~Truthy(data[f])}

\* Lines 385-389: the conversions raise on a flight id that is no integer and
\* on a name or passport that is no string.
ParseRaises(data) ==
    \/ ~IntOk(data.flight_id)
    \/ data.name.ty # "str"
    \/ data.passport.ty # "str"

Parsed(data) ==
    [NoLoc EXCEPT !.flight_id = IntOf(data.flight_id),
                  !.row_num = StrOf(data.row),
                  !.col_num = Upper(StrOf(data.col)),
                  !.passenger_name = Strip(data.name.s),
                  !.passport = Strip(data.passport.s)]

\* Faulty variant: the two writes are issued before the signature is made.
NextStepWritesFirst(step) ==
    CASE step = "idle" -> "select"
      [] step = "select" -> "check"
      [] step = "check" -> "entropy"
      [] step = "entropy" -> "encrypt"
      [] step = "encrypt" -> "update"
      [] step = "update" -> "insert"
      [] step = "insert" -> "sign"
      [] step = "sign" -> "commit"
      [] OTHER -> "done"

\* The statement that follows each step of the handler when it succeeds.
NextStep(step) ==
    CASE step = "idle" -> "select"
      [] step = "select" -> "check"
      [] step = "check" -> "entropy"
      [] step = "entropy" -> "encrypt"
      [] step = "encrypt" -> "sign"
      [] step = "sign" -> "update"
      [] step = "update" -> "insert"
      [] step = "insert" -> "commit"
      [] OTHER -> "done"

\* The handler goes on to its next statement; nothing is returned yet.
Goto(p) ==
    /\ pc' = [pc EXCEPT ![p] = NextStep(pc[p])]
    /\ UNCHANGED response

\* The except clause entered from get_db_connection(), conn.cursor() or
\* conn.start_transaction().
BeginFailed(p) ==
    /\ Log(p, "begin_failed")
    /\ ExceptionReturn(p)

\* Lines 372-396: parse and validate the body; then get_db_connection(),
\* conn.cursor() and conn.start_transaction(), which a storage error fails.
\* Worker threads are interchangeable: requests are numbered as they arrive.
Request(p) ==
    /\ pc[p] = "idle"
    /\ \A q \in Procs : q < p => pc[q] # "idle"
    /\ \E data \in Requests :
        /\ req' = [req EXCEPT ![p] = data]
        /\ IF ~data.json \/ Missing(data) # {}
           THEN /\ Return(p, 400, 0, <<>>)
                /\ Log(p, "invalid")
                /\ UNCHANGED <<tx, locks, is_booked, bookings, flipped_by>>
           ELSE IF ParseRaises(data)
           THEN /\ Return(p, 500, 0, <<>>)
                /\ Log(p, "parse_failed")
                /\ UNCHANGED <<tx, locks, is_booked, bookings, flipped_by>>
           ELSE \/ /\ loc' = [loc EXCEPT ![p] = Parsed(data)]
                   /\ tx' = [tx EXCEPT ![p].active = TRUE]
                   /\ Log(p, "begin")
                   /\ Goto(p)
                   /\ UNCHANGED <<locks, is_booked, bookings, flipped_by>>
                \/ BeginFailed(p)
    /\ UNCHANGED next_id

\* Faulty variant: the lookup locks every seat row of the flight (a scan of
\* idx_seats_flight_available, as it would be without the unique key).
RowsLockedByFlight(flight_id, row_num, col_num) ==
    {id \in SeatIds : SeatRow(id).flight_id = flight_id}

\* The rows the locking read locks: the index records it reads, which under
\* UNIQUE KEY unique_seat (flight_id, row_num, col_num) are the rows it selects.
RowsLocked(flight_id, row_num, col_num) == MatchingSeats(flight_id, row_num, col_num)

\* What SELECT ... fetchone() leaves in the locals: the row found, if any.
SeatRead(p, found) ==
    IF found = {}
    THEN loc[p]
    ELSE LET id == CHOOSE id \in found : TRUE
         IN [loc[p] EXCEPT !.seat_id = id,
                           !.seat_is_booked = is_booked[id] \/ id \in tx[p].upd]

\* Faulty variant: the lookup without FOR UPDATE, a plain read.
SelectNoLock(p) ==
    /\ pc[p] = "select"
    /\ loc' = [loc EXCEPT ![p] =
                  SeatRead(p, MatchingSeats(loc[p].flight_id, loc[p].row_num, loc[p].col_num))]
    /\ Log(p, "select")
    /\ Goto(p)
    /\ UNCHANGED <<is_booked, bookings, next_id, tx, req, flipped_by, locks>>

\* Lines 398-407: SELECT id, is_booked, class ... FOR UPDATE; fetchone().
\* The statement waits while another transaction holds a lock on a row it
\* selects; it then locks the rows and reads their latest committed version.
Select(p) ==
    /\ pc[p] = "select"
    /\ LET found == MatchingSeats(loc[p].flight_id, loc[p].row_num, loc[p].col_num)
           locked == RowsLocked(loc[p].flight_id, loc[p].row_num, loc[p].col_num)
       IN /\ \A id \in locked : ~Conflict(p, <<"seats", id>>)
          /\ locks' = [locks EXCEPT ![p] = @ \cup {<<"seats", id>> : id \in locked}]
          /\ loc' = [loc EXCEPT ![p] = SeatRead(p, found)]
    /\ Log(p, "select")
    /\ Goto(p)
    /\ UNCHANGED <<is_booked, bookings, next_id, tx, req, flipped_by>>

\* if not seat
SeatMissing(p) == loc[p].seat_id = 0

\* Faulty variant: a test that is true of every seat row found.
SeatTakenAlways(p) == TRUE

\* if seat['is_booked']
SeatTaken(p) == loc[p].seat_is_booked

\* Lines 409-424: the two early returns, each after conn.rollback().
Check(p) ==
    /\ pc[p] = "check"
    /\ IF SeatMissing(p)
       THEN Log(p, "not_found") /\ EarlyReturn(p, 404)
       ELSE IF SeatTaken(p)
       THEN Log(p, "already_booked") /\ EarlyReturn(p, 409)
       ELSE /\ Log(p, "free")
            /\ Goto(p)
            /\ UNCHANGED <<loc, locks, tx, is_booked, bookings, flipped_by>>
    /\ UNCHANGED <<next_id, req>>

\* Line 430: qrng_ref = generate_quantum_entropy()
Entropy(p) ==
    /\ pc[p] = "entropy"
    /\ \E qrng_ref \in QuantumRefs :
        loc' = [loc EXCEPT ![p].qrng_ref = qrng_ref]
    /\ Log(p, "entropy")
    /\ Goto(p)
    /\ UNCHANGED <<is_booked, bookings, next_id, locks, tx, req, flipped_by>>

\* The except clause entered from kyber_encrypt.
EncryptFailed(p) ==
    /\ Log(p, "encrypt_failed")
    /\ ExceptionReturn(p)

\* Line 433: kyber_result = kyber_encrypt(passport)
Encrypt(p) ==
    /\ pc[p] = "encrypt"
    /\ IF kyber_encrypt_raises(loc[p].passport)
       THEN EncryptFailed(p)
       ELSE /\ loc' = [loc EXCEPT ![p].kyber_result = kyber_encrypt(loc[p].passport)]
            /\ Log(p, "encrypt")
            /\ Goto(p)
            /\ UNCHANGED <<locks, tx, is_booked, bookings, flipped_by>>
    /\ UNCHANGED <<next_id, req>>

\* Faulty variant: the failure of dilithium_sign is swallowed and the handler
\* goes on with no signature.
SignFailedSwallowed(p) ==
    /\ Log(p, "sign_failed")
    /\ Goto(p)
    /\ UNCHANGED <<loc, locks, tx, is_booked, bookings, flipped_by>>

\* The except clause entered from dilithium_sign.
SignFailed(p) ==
    /\ Log(p, "sign_failed")
    /\ ExceptionReturn(p)

\* Line 436: dilithium_result = dilithium_sign(qrng_ref, seat_id, flight_id, passenger_name)
Sign(p) ==
    /\ pc[p] = "sign"
    /\ IF dilithium_sign_raises(loc[p].qrng_ref, loc[p].seat_id, loc[p].flight_id, loc[p].passenger_name)
       THEN SignFailed(p)
       ELSE /\ loc' = [loc EXCEPT ![p].dilithium_result =
                          dilithium_sign(loc[p].qrng_ref, loc[p].seat_id, loc[p].flight_id,
                                         loc[p].passenger_name)]
            /\ Log(p, "sign")
            /\ Goto(p)
            /\ UNCHANGED <<locks, tx, is_booked, bookings, flipped_by>>
    /\ UNCHANGED <<next_id, req>>

\* Lines 441-443: UPDATE seats SET is_booked = 1 WHERE id = %s (uncommitted).
Update(p) ==
    /\ pc[p] = "update"
    /\ ~Conflict(p, <<"seats", loc[p].seat_id>>)
    /\ tx' = [tx EXCEPT ![p].upd = @ \cup {loc[p].seat_id}]
    /\ locks' = [locks EXCEPT ![p] = @ \cup {<<"seats", loc[p].seat_id>>}]
    /\ Log(p, "update")
    /\ Goto(p)
    /\ UNCHANGED <<is_booked, bookings, next_id, req, loc, flipped_by>>

\* The row the INSERT INTO bookings statement writes.
BookingRow(p) ==
    [id |-> next_id,
     seat_id |-> loc[p].seat_id,
     flight_id |-> loc[p].flight_id,
     pqc_ref |-> loc[p].qrng_ref,
     passenger_name |-> loc[p].passenger_name,
     kyber_capsule |-> loc[p].kyber_result.capsule,
     passport_enc |-> loc[p].kyber_result.encrypted_data,
     encryption_nonce |-> loc[p].kyber_result.nonce,
     pqc_signature |-> loc[p].dilithium_result.signature,
     ticket_data_hash |-> loc[p].dilithium_result.data_hash]

\* The constraints of the bookings table, against the rows the transaction sees.
InsertAllowed(p, row) ==
    /\ unique_booking(bookings \cup tx[p].ins, row)
    /\ unique_pqc_ref(bookings \cup tx[p].ins, row)
    /\ ForeignKeysOk(row)

\* The except clause entered from the INSERT statement.
InsertFailed(p) ==
    /\ Log(p, "insert_failed")
    /\ ExceptionReturn(p)

\* Lines 445-464: INSERT INTO bookings ...; booking_id = cursor.lastrowid.
\* The statement waits while another open transaction holds the same unique
\* key; a duplicate key or any other storage error reaches the except clause.
Insert(p) ==
    /\ pc[p] = "insert"
    /\ LET row == BookingRow(p)
       IN /\ ~Conflict(p, <<"unique_booking", row.seat_id>>)
          /\ ~Conflict(p, <<"pqc_ref", row.pqc_ref>>)
          /\ \/ /\ InsertAllowed(p, row)
                /\ tx' = [tx EXCEPT ![p].ins = @ \cup {row}]
                /\ locks' = [locks EXCEPT ![p] =
                                @ \cup {<<"unique_booking", row.seat_id>>, <<"pqc_ref", row.pqc_ref>>}]
                /\ loc' = [loc EXCEPT ![p].booking_id = row.id]
                /\ next_id' = next_id + 1
                /\ Log(p, "insert")
                /\ Goto(p)
                /\ UNCHANGED <<is_booked, bookings, flipped_by>>
             \/ /\ ~InsertAllowed(p, row)
                /\ next_id' = next_id + 1
                /\ InsertFailed(p)
             \/ /\ InsertFailed(p)
                /\ UNCHANGED next_id
    /\ UNCHANGED req

\* Faulty variant: the confirmation is returned although conn.commit() failed.
CommitFailedConfirms(p) ==
    /\ Log(p, "commit_failed")
    /\ TxRollback(p)
    /\ Return(p, 201, loc[p].booking_id, loc[p].qrng_ref)

\* The except clause entered from conn.commit().
CommitFailed(p) ==
    /\ Log(p, "commit_failed")
    /\ ExceptionReturn(p)

\* Lines 466-512: the flight lookup, conn.commit(), and the 201 response.
\* flight['flight_number'] raises when the lookup found no flight; that is
\* after the commit, so the rollback of the except clause undoes nothing.
Commit(p) ==
    /\ pc[p] = "commit"
    /\ \/ /\ TxCommit(p)
          /\ Log(p, "commit")
          /\ IF loc[p].flight_id \in FlightIds
             THEN Return(p, 201, loc[p].booking_id, loc[p].qrng_ref)
             ELSE Return(p, 500, 0, <<>>)
       \/ CommitFailed(p)
    /\ UNCHANGED <<next_id, req>>

Next ==
    \E p \in Procs :
        \/ Request(p)
        \/ Select(p)
        \/ Check(p)
        \/ Entropy(p)
        \/ Encrypt(p)
        \/ Sign(p)
        \/ Update(p)
        \/ Insert(p)
        \/ Commit(p)

Spec == Init /\ [][Next]_vars

\* The statements of a request that has been received.
Step(p) ==
    \/ Select(p)
    \/ Check(p)
    \/ Entropy(p)
    \/ Encrypt(p)
    \/ Sign(p)
    \/ Update(p)
    \/ Insert(p)
    \/ Commit(p)

\* A worker thread keeps running its handler: the calls it makes (the crypto
\* functions, the statements, commit and rollback) terminate, and a statement
\* that waits for a lock runs once the lock stays free.  Clients need not
\* send requests.
FairSpec == Spec /\ \A p \in Procs : WF_vars(Step(p))


\* ------------------------------------------------- the read-only handlers

\* The store and the booking requests in flight, and the flags: no call
\* but create_booking changes the former, and no call the latter.
bookingVars ==
    <<is_booked, bookings, next_id, locks, tx, pc, req, loc, response, hist, flipped_by, flags>>

\* dilithium_verify raises only where message.encode('utf-8') does, which
\* is outside its try block.
dilithium_verify_raises(booking_ref, seat_id, flight_id, passenger_name) ==
    ~Encodable(TicketMessage(booking_ref, seat_id, flight_id, passenger_name))

\* Faulty variant: the message is recreated with the seat id and the flight
\* id in each other's place.
dilithium_verify_swapped(booking_ref, seat_id, flight_id, passenger_name, signature, data_hash) ==
    LET message == TicketMessage(booking_ref, flight_id, seat_id, passenger_name)
    IN IF sha256_hash(message) # data_hash
       THEN FALSE
       ELSE /\ ~b64decode_raises(signature)
            /\ Prefix(b64decode(signature), DigestLen) = TicketHmac(message)

\* Faulty variant: the hash is compared and the signature is not.
dilithium_verify_hash_only(booking_ref, seat_id, flight_id, passenger_name, signature, data_hash) ==
    sha256_hash(TicketMessage(booking_ref, seat_id, flight_id, passenger_name)) = data_hash

\* Lines 183-213: the hash of the recreated message is compared first, then
\* the HMAC with the first 64 bytes of the decoded signature; a value that
\* does not decode gives False.
dilithium_verify(booking_ref, seat_id, flight_id, passenger_name, signature, data_hash) ==
    LET message == TicketMessage(booking_ref, seat_id, flight_id, passenger_name)
    IN IF sha256_hash(message) # data_hash
       THEN FALSE
       ELSE /\ ~b64decode_raises(signature)
            /\ Prefix(b64decode(signature), DigestLen) = TicketHmac(message)

\* The body of a verification request.
VerifyReq(v) == [json |-> TRUE, has_ref |-> TRUE, booking_ref |-> v]

LowerChar(c) ==
    IF \E k \in 1..6 : UpperChars[k] = c
    THEN LowerChars[CHOOSE k \in 1..6 : UpperChars[k] = c]
    ELSE c

\* A reference as a client may retype it: hexadecimal digits in lower case,
\* blanks around it.
Retyped(ref) ==
    <<" ">> \o SubSeq(ref, 1, 5) \o [k \in 1..(Len(ref) - 5) |-> LowerChar(ref[k + 5])] \o <<" ">>

Fabricated == <<"Q", "R", "E", "F", "-", "0", "0", "0", "0">>

\* The verification requests sent: no body, no reference, a reference that is
\* no string, a fabricated one, and one reference generate_quantum_entropy
\* can return, as returned and retyped.
VerifyRequests ==
    { [json |-> FALSE, has_ref |-> FALSE, booking_ref |-> JNone],
      [json |-> TRUE, has_ref |-> FALSE, booking_ref |-> JNone],
      VerifyReq(JInt(7)),
      VerifyReq(JStr(Fabricated)),
      VerifyReq(JStr(generate_quantum_entropy(TokenBytes(1)))),
      VerifyReq(JStr(Retyped(generate_quantum_entropy(TokenBytes(1))))) }

\* WHERE b.pqc_ref = %s under the default collation of the column: letter
\* case and trailing blanks do not count.
RefEquals(a, b) == Upper(RStrip(a)) = Upper(RStrip(b))

\* Faulty variant: a lookup by the five leading characters (pqc_ref LIKE).
BookingsByPrefix(booking_ref) ==
    {b \in bookings : /\ SubSeq(b.pqc_ref, 1, 5) = SubSeq(booking_ref, 1, 5)
                      /\ b.seat_id \in SeatIds
                      /\ b.flight_id \in FlightIds}

\* The rows of bookings JOIN seats JOIN flights WHERE b.pqc_ref = %s.
BookingsByRef(booking_ref) ==
    {b \in bookings : /\ RefEquals(b.pqc_ref, booking_ref)
                      /\ b.seat_id \in SeatIds
                      /\ b.flight_id \in FlightIds}

\* The 'ticket' of the verification response.
Ticket(b) ==
    [booking_ref |-> b.pqc_ref,
     passenger |-> b.passenger_name,
     seat |-> SeatRow(b.seat_id).row_num \o SeatRow(b.seat_id).col_num]

\* jsonify({'success': False, 'error': ...}), status
ErrorReply(op, arg, status, error) ==
    [NoReply EXCEPT !.op = op, !.arg = arg, !.status = status, !.error = error]

\* str(e) of the error the connector raises when the store cannot be reached
\* or a statement fails.
StorageError == "mysql.connector.Error"

\* Faulty variant: a verification that deletes the rows it has looked up
\* (a ticket that can be verified once).
verify_ticket_consuming(data) ==
    /\ IF ~data.json \/ ~data.has_ref
       THEN /\ reply' = ErrorReply("verify", data, 400, "Booking reference required")
            /\ bookings' = bookings
       ELSE IF data.booking_ref.ty # "str"
       THEN /\ reply' = ErrorReply("verify", data, 500, "AttributeError")
            /\ bookings' = bookings
       ELSE LET booking_ref == Upper(Strip(data.booking_ref.s))
                found == BookingsByRef(booking_ref)
            IN \/ /\ reply' = ErrorReply("verify", data, 500, StorageError)
                  /\ bookings' = bookings
               \/ /\ found = {}
                  /\ reply' = [NoReply EXCEPT !.op = "verify", !.arg = data, !.status = 200,
                                              !.success = TRUE]
                  /\ bookings' = bookings
               \/ /\ found # {}
                  /\ bookings' = bookings \ found
                  /\ LET booking == CHOOSE b \in found : TRUE
                     IN IF dilithium_verify_raises(booking.pqc_ref, booking.seat_id,
                                                   booking.flight_id, booking.passenger_name)
                        THEN reply' = ErrorReply("verify", data, 500, "UnicodeEncodeError")
                        ELSE reply' =
                               [NoReply EXCEPT
                                   !.op = "verify", !.arg = data, !.status = 200,
                                   !.success = TRUE,
                                   !.verified = dilithium_verify(
                                       booking.pqc_ref, booking.seat_id, booking.flight_id,
                                       booking.passenger_name, booking.pqc_signature,
                                       booking.ticket_data_hash),
                                   !.ticket = Ticket(booking)]
    /\ UNCHANGED <<is_booked, next_id, locks, tx, pc, req, loc, response, hist, flipped_by,
                   flags>>

\* Lines 524-601: POST /api/verify.  The lookup is a plain SELECT on a
\* connection of its own: it reads committed rows and takes no lock.
verify_ticket(data) ==
    /\ IF ~data.json \/ ~data.has_ref
       THEN reply' = ErrorReply("verify", data, 400, "Booking reference required")
       ELSE IF data.booking_ref.ty # "str"
       THEN reply' = ErrorReply("verify", data, 500, "AttributeError")
       ELSE LET booking_ref == Upper(Strip(data.booking_ref.s))
                found == BookingsByRef(booking_ref)
            IN \/ reply' = ErrorReply("verify", data, 500, StorageError)
               \/ /\ found = {}
                  /\ reply' = [NoReply EXCEPT !.op = "verify", !.arg = data, !.status = 200,
                                              !.success = TRUE]
               \/ /\ found # {}
                  /\ LET booking == CHOOSE b \in found : TRUE
                     IN IF dilithium_verify_raises(booking.pqc_ref, booking.seat_id,
                                                   booking.flight_id, booking.passenger_name)
                        THEN reply' = ErrorReply("verify", data, 500, "UnicodeEncodeError")
                        ELSE reply' =
                               [NoReply EXCEPT
                                   !.op = "verify", !.arg = data, !.status = 200,
                                   !.success = TRUE,
                                   !.verified = dilithium_verify(
                                       booking.pqc_ref, booking.seat_id, booking.flight_id,
                                       booking.passenger_name, booking.pqc_signature,
                                       booking.ticket_data_hash),
                                   !.ticket = Ticket(booking)]
    /\ UNCHANGED bookingVars

\* The seats of a flight ORDER BY CAST(row_num AS UNSIGNED), col_num: the
\* seed order of the ids.
SeatsOfFlight(flight_id) == {id \in SeatIds : SeatFlight(id) = flight_id}

\* Faulty variant: a seat map read at READ UNCOMMITTED, which shows the flags
\* open transactions have set.
SeatMapDirty(flight_id) ==
    IF SeatsOfFlight(flight_id) = {}
    THEN <<>>
    ELSE [r \in 1..NumRows |->
            [row |-> DecStr(r),
             class |-> SeatClass(r),
             seats |-> [c \in 1..NumCols |->
                          LET id == CHOOSE id \in SeatsOfFlight(flight_id) :
                                        SeatRowNo(id) = r /\ SeatColNo(id) = c
                          IN [id |-> id,
                              col |-> SeatRow(id).col_num,
                              label |-> SeatRow(id).row_num \o SeatRow(id).col_num,
                              is_booked |-> is_booked[id] \/ \E p \in Procs : id \in tx[p].upd]]]]

\* seat_map: per row, in order, its seats in order, with the committed flag.
SeatMap(flight_id) ==
    IF SeatsOfFlight(flight_id) = {}
    THEN <<>>
    ELSE [r \in 1..NumRows |->
            [row |-> DecStr(r),
             class |-> SeatClass(r),
             seats |-> [c \in 1..NumCols |->
                          LET id == CHOOSE id \in SeatsOfFlight(flight_id) :
                                        SeatRowNo(id) = r /\ SeatColNo(id) = c
                          IN [id |-> id,
                              col |-> SeatRow(id).col_num,
                              label |-> SeatRow(id).row_num \o SeatRow(id).col_num,
                              is_booked |-> is_booked[id]]]]]

Statistics(flight_id) ==
    LET total == Cardinality(SeatsOfFlight(flight_id))
        booked == Cardinality({id \in SeatsOfFlight(flight_id) : is_booked[id]})
    IN [total_seats |-> total, booked_seats |-> booked, available_seats |-> total - booked]

\* The flights a seat map is asked for: the first, and one that does not exist.
ListedFlights == {1, NumFlights + 1}

\* Lines 271-355: GET /api/seats/<int:flight_id>, two plain SELECTs.
get_seats(flight_id) ==
    /\ \/ reply' = ErrorReply("get_seats", JInt(flight_id), 500, StorageError)
       \/ IF flight_id \notin FlightIds
          THEN reply' = ErrorReply("get_seats", JInt(flight_id), 404, "Flight not found")
          ELSE reply' = [NoReply EXCEPT !.op = "get_seats", !.arg = JInt(flight_id),
                                       !.status = 200, !.success = TRUE,
                                       !.seat_map = SeatMap(flight_id),
                                       !.statistics = Statistics(flight_id)]
    /\ UNCHANGED bookingVars

\* Lines 604-625: GET /api/health, SELECT 1; a storage error is reported in
\* the body of a 200 reply.
health_check ==
    /\ \E db_status \in {"connected", "error: " \o StorageError} :
          reply' = [NoReply EXCEPT !.op = "health", !.status = 200, !.database = db_status]
    /\ UNCHANGED bookingVars

\* All the handlers of the API.
ApiNext ==
    \/ Next
    \/ \E data \in VerifyRequests : verify_ticket(data)
    \/ \E flight_id \in ListedFlights : get_seats(flight_id)
    \/ health_check

ApiSpec == Init /\ [][ApiNext]_vars

\* ------------------------------------------------ quantum_service/signer.py

\* The results of secrets.token_bytes and of key generation: one per name.
KeyNames == {DecStr(i) : i \in 1..NumKeys}

\* Size of a Dilithium3 signature as sign_mock trims it: 3293 bytes, which
\* is some whole copies and a part of one; here one byte less than all copies.
SignatureLen == 2 * DigestLen * MockRepeat - 1

NoResult == [success |-> FALSE]

\* A call of a function of quantum_service: how it ended ("returned",
\* "raised", or "exit" for json_error's sys.exit), and what it returned.
Call(op, args, outcome, result) ==
    [op |-> op, args |-> args, outcome |-> outcome, result |-> result]

\* hmac.new(QuantumConfig.MOCK_HMAC_KEY, data_bytes, hashlib.sha512).digest()
MockHmac(data) == Bytes("hmac-sha512", <<"MOCK_HMAC_KEY">> \o data, DigestLen)

\* Lines 139-187: sign_mock, with mock_public_key the random value `key`.
sign_mock(data, key) ==
    LET mock_public_key == Bytes("token_bytes", key, DigestLen)
        mock_private_key == Bytes("token_bytes", <<"private">> \o key, DigestLen)
        signature == MockHmac(data)
        extended_sig == signature \o Bytes("sha512", key, DigestLen)
        mock_signature == Prefix(Repeat(extended_sig, MockRepeat), SignatureLen)
    IN [success |-> TRUE,
        signature |-> bytes_to_hex(mock_signature),
        public_key |-> bytes_to_hex(mock_public_key),
        private_key |-> bytes_to_hex(mock_private_key),
        data_hash |-> sha256_hash(data),
        mock_mode |-> TRUE]

\* verify_mock comparing the whole signature with the HMAC
verify_mock_whole(data, signature_hex, public_key_hex) ==
    [success |-> TRUE,
     valid |-> hex_to_bytes(signature_hex) = MockHmac(data),
     mock_mode |-> TRUE]

\* Lines 190-217: verify_mock compares the first 64 bytes with the HMAC of
\* the data; the public key is not used.
verify_mock(data, signature_hex, public_key_hex) ==
    LET signature == hex_to_bytes(signature_hex)
        expected_hmac == MockHmac(data)
    IN [success |-> TRUE,
        valid |-> Prefix(signature, DigestLen) = expected_hmac,
        mock_mode |-> TRUE]

\* Lines 61-96: sign_real, with `key` the key pair generate_keypair gives.
\* The signature scheme is taken to be correct and unforgeable.
sign_real(data, key) ==
    [success |-> TRUE,
     signature |-> bytes_to_hex(Bytes("Dilithium3", key \o <<"|">> \o data, SignatureLen)),
     public_key |-> bytes_to_hex(Bytes("public_key", key, DigestLen)),
     private_key |-> bytes_to_hex(Bytes("secret_key", key, DigestLen)),
     data_hash |-> sha256_hash(data),
     mock_mode |-> FALSE]

\* Lines 99-131: verify_real; oqs verify is true for the signatures made
\* with the secret key of the public key, on the same data.
verify_real(data, signature_hex, public_key_hex) ==
    LET signature == hex_to_bytes(signature_hex)
        public_key == hex_to_bytes(public_key_hex)
    IN [success |-> TRUE,
        valid |-> \E key \in KeyNames :
                     /\ public_key = Bytes("public_key", key, DigestLen)
                     /\ signature = Bytes("Dilithium3", key \o <<"|">> \o data, SignatureLen),
        mock_mode |-> FALSE]

\* A faulty variant of sign: the caller's data takes part in the choice of
\* the backend.
SignCallByData(data, key) ==
    LET args == [data |-> data, signature |-> <<>>, public_key |-> <<>>]
    IN IF data = <<>>
       THEN Call("sign", args, "exit", NoResult)
       ELSE IF ~Encodable(data)
       THEN Call("sign", args, "raised", NoResult)
       ELSE IF flags.LIBOQS_AVAILABLE /\ Len(data) > 1
       THEN Call("sign", args, "returned", sign_real(data, key))
       ELSE Call("sign", args, "returned", sign_mock(data, key))

\* Lines 224-240: sign(data), as one call with its outcome.
SignCall(data, key) ==
    LET args == [data |-> data, signature |-> <<>>, public_key |-> <<>>]
    IN IF data = <<>>
       THEN Call("sign", args, "exit", NoResult)
       ELSE IF ~Encodable(data)
       THEN Call("sign", args, "raised", NoResult)
       ELSE IF flags.LIBOQS_AVAILABLE
       THEN Call("sign", args, "returned", sign_real(data, key))
       ELSE Call("sign", args, "returned", sign_mock(data, key))

\* Lines 243-261: verify(data, signature_hex, public_key_hex), as one call
\* with its outcome.  An empty field ends the process in json_error; the
\* encoding of the data and the decoding of the hexadecimal values raise.
VerifyCall(data, signature_hex, public_key_hex) ==
    LET args == [data |-> data, signature |-> signature_hex, public_key |-> public_key_hex]
    IN IF data = <<>> \/ signature_hex = <<>> \/ public_key_hex = <<>>
       THEN Call("verify", args, "exit", NoResult)
       ELSE IF ~Encodable(data)
       THEN Call("verify", args, "raised", NoResult)
       ELSE IF flags.LIBOQS_AVAILABLE
       THEN IF hex_to_bytes_raises(signature_hex) \/ hex_to_bytes_raises(public_key_hex)
            THEN Call("verify", args, "raised", NoResult)
            ELSE Call("verify", args, "returned", verify_real(data, signature_hex, public_key_hex))
       ELSE IF hex_to_bytes_raises(signature_hex)
            THEN Call("verify", args, "raised", NoResult)
            ELSE Call("verify", args, "returned", verify_mock(data, signature_hex, public_key_hex))

\* The messages signed and verified: short texts, one that has no UTF-8
\* encoding, and the empty one.
Messages == {<<"a">>, <<"a", "b">>, <<Surrogate>>, <<>>}

\* What sign can return in this process for the messages.
Signed ==
    {c.result : c \in {d \in {SignCall(data, key) : data \in Messages, key \in KeyNames} :
                          d.outcome = "returned"}}

\* hex with the digits of byte k replaced by those of another byte
TamperedAt(hex, k) ==
    [i \in 1..Len(hex) |->
        IF i \in {2 * k - 1, 2 * k} THEN HexDigit(Flip(hex[i].b), hex[i].half) ELSE hex[i]]

\* The values a verifier is handed for a signature or a key made by sign:
\* the value itself; with its first or its last byte altered; cut to one
\* byte; with a digit missing; with a character that is no digit; empty.
Variants(hex) ==
    {hex, TamperedAt(hex, 1), TamperedAt(hex, Len(hex) \div 2), Prefix(hex, 2),
     Prefix(hex, Len(hex) - 1), <<NotHex>> \o Tail(hex), <<>>}

\* The values a verifier is handed for a public key: the key itself; with
\* its first byte altered; with a character that is no digit; empty.
KeyVariants(hex) == {hex, TamperedAt(hex, 1), <<NotHex>> \o Tail(hex), <<>>}

\* sign(data) is called.
sign(data, key) ==
    /\ reply' = SignCall(data, key)
    /\ UNCHANGED bookingVars

\* verify(data, signature_hex, public_key_hex) is called.
verify(data, signature_hex, public_key_hex) ==
    /\ reply' = VerifyCall(data, signature_hex, public_key_hex)
    /\ UNCHANGED bookingVars

\* ------------------------- quantum_service/encryptor.py and decryptor.py

\* hkdf_derive_key: HMAC-SHA256 extract and expand, a function of the secret.
hkdf_derive_key(shared_secret) == Bytes("hkdf", shared_secret, SecretLen)

\* encryptor.py lines 66-77: aes_encrypt with PyCryptodome; the nonce is the
\* random value `rnd`.  Returns <<ciphertext + tag, nonce>>.
aes_encrypt(key, plaintext, rnd) ==
    LET nonce == Bytes("get_random_bytes", rnd, NonceLen)
    IN <<AesGcm(key, nonce, plaintext) \o GcmTag(key, nonce, plaintext), nonce>>

\* data[:-n]: empty when data has at most n bytes.
DropLast(data, n) == SubSeq(data, 1, Len(data) - n)

\* data[-n:]: all of data when it has at most n bytes.
Last(data, n) == SubSeq(data, IF Len(data) > n THEN Len(data) - n + 1 ELSE 1, Len(data))

\* What AES-GCM decryption makes of the ciphertext: the byte that was
\* encrypted at this place under this key and nonce, any other byte otherwise.
GcmDecrypted(key, ciphertext, nonce) ==
    [k \in 1..Len(ciphertext) |->
        LET c == ciphertext[k]
        IN IF c.kind = "aes-gcm" /\ c.k = k /\ c.of[1] = key /\ c.of[2] = nonce
           THEN c.of[3][1]
           ELSE Flip(c)]

\* aes_decrypt that returns the text without comparing the tag
aes_decrypt_unchecked(key, ciphertext_with_tag, nonce) == FALSE

\* decryptor.py lines 49-58: decrypt_and_verify raises ValueError when the
\* tag is not the tag of the decrypted text.
aes_decrypt_raises(key, ciphertext_with_tag, nonce) ==
    LET ciphertext == DropLast(ciphertext_with_tag, TagLen)
        tag == Last(ciphertext_with_tag, TagLen)
    IN tag # GcmTag(key, nonce, GcmDecrypted(key, ciphertext, nonce))

\* decryptor.py lines 49-58: the plaintext aes_decrypt returns.
aes_decrypt(key, ciphertext_with_tag, nonce) ==
    GcmDecrypted(key, DropLast(ciphertext_with_tag, TagLen), nonce)

\* oqs decap_secret: the secret that was encapsulated for this secret key,
\* and an unrelated secret for any other ciphertext or key.
decap_secret(private_key, encapsulated_key) ==
    IF \E key \in KeyNames :
          /\ private_key = Bytes("kyber_secret_key", key, DigestLen)
          /\ encapsulated_key = Bytes("kyber_ciphertext", key, CapsuleLen)
    THEN Bytes("kyber_shared_secret", encapsulated_key[1].of, SecretLen)
    ELSE Bytes("kyber_rejected", <<>>, SecretLen)

\* encryptor.py lines 118-156: kyber_encrypt_real, `key` naming the key
\* pair, the encapsulation and the nonce drawn.
kyber_encrypt_real(plaintext, key) ==
    LET public_key == Bytes("kyber_public_key", key, DigestLen)
        private_key == Bytes("kyber_secret_key", key, DigestLen)
        encapsulated_key == Bytes("kyber_ciphertext", key, CapsuleLen)
        shared_secret == Bytes("kyber_shared_secret", key, SecretLen)
        aes_key == hkdf_derive_key(shared_secret)
        sealed == aes_encrypt(aes_key, plaintext, key)
    IN [success |-> TRUE,
        ciphertext |-> b64encode(sealed[1]),
        encapsulated_key |-> b64encode(encapsulated_key),
        nonce |-> b64encode(sealed[2]),
        public_key |-> bytes_to_hex(public_key),
        private_key |-> bytes_to_hex(private_key),
        mock_mode |-> FALSE]

\* encryptor.py lines 163-207: kyber_encrypt_mock, `key` naming the random
\* values drawn; the shared secret replaces the head of the encapsulated key.
kyber_encrypt_mock(plaintext, key) ==
    LET mock_public_key == Bytes("token_bytes", <<"public">> \o key, DigestLen)
        mock_private_key == Bytes("token_bytes", <<"private">> \o key, DigestLen)
        mock_encapsulated_key == Bytes("token_bytes", <<"encapsulated">> \o key, CapsuleLen)
        mock_shared_secret == Bytes("token_bytes", <<"secret">> \o key, SecretLen)
        aes_key == hkdf_derive_key(mock_shared_secret)
        sealed == aes_encrypt(aes_key, plaintext, key)
        mock_encapsulated_data ==
            mock_shared_secret \o SubSeq(mock_encapsulated_key, SecretLen + 1, CapsuleLen)
    IN [success |-> TRUE,
        ciphertext |-> b64encode(sealed[1]),
        encapsulated_key |-> b64encode(mock_encapsulated_data),
        nonce |-> b64encode(sealed[2]),
        public_key |-> bytes_to_hex(mock_public_key),
        private_key |-> bytes_to_hex(mock_private_key),
        mock_mode |-> TRUE]

\* encryptor.py lines 214-232: encrypt(plaintext), as one call with its
\* outcome.  An empty plaintext ends the process in json_error, and so does
\* aes_encrypt without PyCryptodome (lines 91-93).
EncryptCall(plaintext, key) ==
    LET args == [plaintext |-> plaintext]
    IN IF plaintext = <<>>
       THEN Call("encrypt", args, "exit", NoResult)
       ELSE IF ~Encodable(plaintext)
       THEN Call("encrypt", args, "raised", NoResult)
       ELSE IF ~flags.PYCRYPTODOME_AVAILABLE
       THEN Call("encrypt", args, "exit", NoResult)
       ELSE IF flags.LIBOQS_AVAILABLE
       THEN Call("encrypt", args, "returned", kyber_encrypt_real(encode_utf8(plaintext), key))
       ELSE Call("encrypt", args, "returned", kyber_encrypt_mock(encode_utf8(plaintext), key))

\* decryptor.py lines 81-125 and 132-165: the shared secret is decapsulated
\* with the private key (real), or is the head of the encapsulated data (mock).
SharedSecret(f, encapsulated, private_key_hex) ==
    IF f.LIBOQS_AVAILABLE
    THEN decap_secret(hex_to_bytes(private_key_hex), encapsulated)
    ELSE Prefix(encapsulated, SecretLen)

\* decryptor.py lines 172-197: decrypt(ciphertext_b64, encapsulated_key_b64,
\* nonce_b64, private_key_hex), as one call with its outcome, in a process
\* whose flags are f.
DecryptWith(f, ciphertext_b64, encapsulated_key_b64, nonce_b64, private_key_hex) ==
    LET args == [ciphertext |-> ciphertext_b64, encapsulated_key |-> encapsulated_key_b64,
                 nonce |-> nonce_b64, private_key |-> private_key_hex]
        ciphertext == b64decode(ciphertext_b64)
        nonce == b64decode(nonce_b64)
        aes_key == hkdf_derive_key(SharedSecret(f, b64decode(encapsulated_key_b64), private_key_hex))
        plaintext == aes_decrypt(aes_key, ciphertext, nonce)
    IN IF \/ b64decode_raises(ciphertext_b64)
          \/ b64decode_raises(encapsulated_key_b64)
          \/ b64decode_raises(nonce_b64)
          \/ f.LIBOQS_AVAILABLE /\ hex_to_bytes_raises(private_key_hex)
       THEN Call("decrypt", args, "raised", NoResult)
       ELSE IF ~f.PYCRYPTODOME_AVAILABLE
       THEN Call("decrypt", args, "exit", NoResult)
       ELSE IF aes_decrypt_raises(aes_key, ciphertext, nonce) \/ decode_utf8_raises(plaintext)
       THEN Call("decrypt", args, "raised", NoResult)
       ELSE Call("decrypt", args, "returned",
                 [success |-> TRUE, plaintext |-> decode_utf8(plaintext),
                  mock_mode |-> ~f.LIBOQS_AVAILABLE])

\* decrypt called in this process.
DecryptCall(ciphertext_b64, encapsulated_key_b64, nonce_b64, private_key_hex) ==
    DecryptWith(flags, ciphertext_b64, encapsulated_key_b64, nonce_b64, private_key_hex)

\* The plaintexts encrypted: as the messages.
Plaintexts == Messages

\* What encrypt can return in this process for a plaintext.
EncryptedFor(plaintext) ==
    {c.result : c \in {d \in {EncryptCall(plaintext, key) : key \in KeyNames} :
                          d.outcome = "returned"}}

\* text with the byte of character k replaced by another byte
FlippedAt(text, k) == [text EXCEPT ![k] = B64Unit(Flip(text[k].b))]

\* The ciphertexts a decryptor is handed for one made by encrypt: the
\* ciphertext itself, and with one byte of the text or of the tag altered.
CipherVariants(text) ==
    {text} \cup {FlippedAt(text, k) : k \in {i \in 1..Len(text) : IsB64Unit(text[i])}}

\* encrypt(plaintext) is called.
encrypt(plaintext, key) ==
    /\ reply' = EncryptCall(plaintext, key)
    /\ UNCHANGED bookingVars

\* decrypt(ciphertext_b64, encapsulated_key_b64, nonce_b64, private_key_hex)
\* is called.
decrypt(ciphertext_b64, encapsulated_key_b64, nonce_b64, private_key_hex) ==
    /\ reply' = DecryptCall(ciphertext_b64, encapsulated_key_b64, nonce_b64, private_key_hex)
    /\ UNCHANGED bookingVars

\* ----------------------------------------------- quantum_service/entropy.py

\* Line 46: uppercase letters and digits without I, O, 0 and 1.
BOOKING_CHARSET ==
    <<"A", "B", "C", "D", "E", "F", "G", "H", "J", "K", "L", "M", "N", "P", "Q", "R",
      "S", "T", "U", "V", "W", "X", "Y", "Z", "2", "3", "4", "5", "6", "7", "8", "9">>

\* Line 49
DEFAULT_LENGTH == 8

\* Line 52
MAX_LENGTH == 32

\* A Python int of any size is kept as its digits to the base Limb, the
\* first the highest and never 0; the empty sequence is 0.
Limb == 2 ^ 12

RECURSIVE Normal(_)
Normal(digits) ==
    IF digits # <<>> /\ Head(digits) = 0 THEN Normal(Tail(digits)) ELSE digits

RECURSIVE BitsVal(_)
\* The number a few characters '0' and '1' denote.
BitsVal(bits) ==
    IF bits = <<>>
    THEN 0
    ELSE 2 * BitsVal(SubSeq(bits, 1, Len(bits) - 1)) + (IF bits[Len(bits)] = "1" THEN 1 ELSE 0)

\* int(bits, 2) of a string of the characters '0' and '1': twelve characters
\* make a digit, counted from the end of the string.
IntOfBits(bits) ==
    LET n == (Len(bits) + 11) \div 12
        first == Len(bits) - 12 * (n - 1)
    IN Normal([k \in 1..n |->
                 IF k = 1
                 THEN BitsVal(SubSeq(bits, 1, first))
                 ELSE BitsVal(SubSeq(bits, first + 12 * (k - 2) + 1, first + 12 * (k - 1)))])

\* The digits of a number below Limb.
Small(n) == IF n = 0 THEN <<>> ELSE <<n>>

RECURSIVE LongDiv(_, _)
\* Division of the digits by d, digit by digit: the digits of the quotient
\* (with leading zeros) and the remainder.
LongDiv(num, d) ==
    IF num = <<>>
    THEN [q |-> <<>>, r |-> 0]
    ELSE LET h == LongDiv(SubSeq(num, 1, Len(num) - 1), d)
             x == Limb * h.r + num[Len(num)]
         IN [q |-> Append(h.q, x \div d), r |-> x % d]

\* What secrets.randbelow(charset_size ** remaining) gives, by the name of
\* the way it falls: 0, 1, charset_size - 1, or charset_size, each when it
\* is below the bound (with one character the bound is 1 and the value 0).
RandBelowNames == {"zero", "one", "last", "next"}

randbelow(charset_size, remaining, refill) ==
    CASE refill = "zero" -> Small(0)
      [] refill = "one" -> IF charset_size >= 2 THEN Small(1) ELSE Small(0)
      [] refill = "last" -> Small(charset_size - 1)
      [] OTHER -> IF remaining >= 2 /\ charset_size >= 2
                  THEN Small(charset_size)
                  ELSE Small(charset_size - 1)

RECURSIVE BitsLoopNoRefill(_, _, _, _, _)
\* Faulty variant: the loop ends when the accumulator is used up.
BitsLoopNoRefill(num, charset, length, result, refill) ==
    IF ~(Len(result) < length)
    THEN result
    ELSE LET charset_size == Len(charset)
             dm == LongDiv(num, charset_size)
             appended == Append(result, charset[dm.r + 1])
             quotient == Normal(dm.q)
         IN IF quotient = <<>>
            THEN appended
            ELSE BitsLoopNoRefill(quotient, charset, length, appended, refill)

RECURSIVE BitsLoop(_, _, _, _, _)
\* Lines 106-111: the while loop of bits_to_booking_ref.
BitsLoop(num, charset, length, result, refill) ==
    IF ~(Len(result) < length)
    THEN result
    ELSE LET charset_size == Len(charset)
             dm == LongDiv(num, charset_size)
             appended == Append(result, charset[dm.r + 1])
             quotient == Normal(dm.q)
         IN BitsLoop(IF quotient = <<>> /\ Len(appended) < length
                     THEN randbelow(charset_size, length - Len(appended), refill)
                     ELSE quotient,
                     charset, length, appended, refill)

\* Lines 97-113: bits_to_booking_ref, `refill` naming what randbelow gives.
bits_to_booking_ref(bits, charset, length, refill) ==
    BitsLoop(IntOfBits(bits), charset, length, <<>>, refill)

\* What the measurement of num_bits qubits after a Hadamard gate can give,
\* by name: any string of num_bits characters '0' and '1'.
BitNames == {"zeros", "ones", "low", "high", "alternating"}

\* Lines 59-94: generate_qrng_real
generate_qrng_real(num_bits, measured) ==
    [k \in 1..num_bits |->
        CASE measured = "zeros" -> "0"
          [] measured = "ones" -> "1"
          [] measured = "low" -> IF k = num_bits THEN "1" ELSE "0"
          [] measured = "high" -> IF k = 1 THEN "1" ELSE "0"
          [] OTHER -> IF k % 2 = 1 THEN "1" ELSE "0"]

\* What the calls of secrets.choice can give, by name.
ChoiceNames == {"first", "last", "each"}

\* Lines 120-127: generate_qrng_mock
generate_qrng_mock(length, chosen) ==
    [k \in 1..length |->
        CASE chosen = "first" -> BOOKING_CHARSET[1]
          [] chosen = "last" -> BOOKING_CHARSET[Len(BOOKING_CHARSET)]
          [] OTHER -> BOOKING_CHARSET[((k - 1) % Len(BOOKING_CHARSET)) + 1]]

\* the validation of the length without its lower limit
ClampNoMinimum(length) == IF length > MAX_LENGTH THEN MAX_LENGTH ELSE length

\* Lines 145-148: the validation of the length.
Clamp(length) ==
    IF length < 4 THEN 4 ELSE IF length > MAX_LENGTH THEN MAX_LENGTH ELSE length

\* Lines 134-176: generate_booking_reference(length), as one call with its
\* outcome, for a process with or without Qiskit.
ReferenceCall(length, mock_mode, chosen, measured, refill) ==
    LET clamped == Clamp(length)
        random_id ==
            IF mock_mode
            THEN generate_qrng_mock(clamped, chosen)
            ELSE bits_to_booking_ref(generate_qrng_real(clamped * 6, measured),
                                     BOOKING_CHARSET, clamped, refill)
    IN Call("generate_booking_reference", [length |-> length], "returned",
            [success |-> TRUE, random_id |-> random_id, length |-> Len(random_id),
             mock_mode |-> mock_mode])

\* The lengths asked for: below and at the minimum, the default, at and
\* above the maximum.
Lengths == {-1, 0, 2, 4, DEFAULT_LENGTH, MAX_LENGTH, MAX_LENGTH + 1}

\* The calls of generate_booking_reference, by backend.  A measurement with
\* a 1 at its head or throughout leaves no place for randbelow.
ReferenceCalls ==
    [mock_mode \in BOOLEAN |->
        IF mock_mode
        THEN {ReferenceCall(length, TRUE, chosen, "zeros", "zero") :
                 length \in Lengths, chosen \in ChoiceNames}
        ELSE {ReferenceCall(length, FALSE, "first", measured, refill) :
                 length \in Lengths, measured \in {"zeros", "low"}, refill \in RandBelowNames}
             \cup {ReferenceCall(length, FALSE, "first", measured, "zero") :
                      length \in Lengths, measured \in {"ones", "high", "alternating"}}]

\* Lines 97-113: bits_to_booking_ref(bits, charset, length), as one call
\* with its outcome.
BitsCall(bits, charset, length, refill) ==
    Call("bits_to_booking_ref", [bits |-> bits, charset |-> charset, length |-> length],
         "returned", [random_id |-> bits_to_booking_ref(bits, charset, length, refill)])

\* The charsets converted to: BOOKING_CHARSET, and one of a single character.
Charsets == {BOOKING_CHARSET, <<"Z">>}

\* The calls of bits_to_booking_ref: a measurement of 6 bits per character,
\* as generate_booking_reference asks for, or of one bit, for a length of
\* one character, the default and the maximum.
BitsCalls ==
    {BitsCall(generate_qrng_real(num_bits, measured), charset, length, refill) :
        num_bits \in {1, 6 * DEFAULT_LENGTH, 6 * MAX_LENGTH},
        measured \in BitNames, charset \in Charsets,
        length \in {1, DEFAULT_LENGTH, MAX_LENGTH}, refill \in RandBelowNames}

\* bits_to_booking_ref(bits, charset, length) is called.
bits_to_booking_ref_called(call) ==
    /\ reply' = call
    /\ UNCHANGED bookingVars

\* generate_booking_reference(length) is called.
generate_booking_reference(call) ==
    /\ reply' = call
    /\ UNCHANGED bookingVars

\* A process that has imported quantum_service: the flags are as the
\* imports of config.py went.
QuantumInit ==
    /\ StoreInit
    /\ reply = NoReply
    /\ flags \in QuantumFlags

QuantumNext ==
    \/ \E data \in Messages, key \in KeyNames : sign(data, key)
    \/ \E data \in Messages, s \in Signed :
          \E signature_hex \in Variants(s.signature), public_key_hex \in KeyVariants(s.public_key) :
              verify(data, signature_hex, public_key_hex)
    \/ \E plaintext \in Plaintexts, key \in KeyNames : encrypt(plaintext, key)
    \/ \E plaintext \in Plaintexts :
          \E e \in EncryptedFor(plaintext) :
              \E ciphertext_b64 \in CipherVariants(e.ciphertext) :
                  decrypt(ciphertext_b64, e.encapsulated_key, e.nonce, e.private_key)
    \/ \E call \in ReferenceCalls[~flags.QISKIT_AVAILABLE] : generate_booking_reference(call)
    \/ \E call \in BitsCalls : bits_to_booking_ref_called(call)

QuantumSpec == QuantumInit /\ [][QuantumNext]_vars

\* ------------------------------------------------------------ the claims

Range(f) == {f[k] : k \in DOMAIN f}

Started(p) == pc[p] # "idle"

Done(p) == pc[p] = "done"

AllDone == \A p \in Procs : Done(p)

\* The request got past validation and parsing.
Wellformed(data) == data.json /\ Missing(data) = {} /\ ~ParseRaises(data)

\* The seat a request body asks for, if it is well formed and the seat
\* exists: the seat with its coordinates.
SeatsAsked ==
    [data \in Requests |->
        IF Wellformed(data)
        THEN LET wanted == Parsed(data)
             IN {id \in SeatIds : /\ SeatFlight(id) = wanted.flight_id
                                  /\ DecStr(SeatRowNo(id)) = wanted.row_num
                                  /\ <<ColNames[SeatColNo(id)]>> = wanted.col_num}
        ELSE {}]

\* The seat a started request asks for.
RequestedSeats(p) == IF Started(p) THEN SeatsAsked[req[p]] ELSE {}

\* For each request, the seat it asks for.
Asked == [p \in Procs |-> RequestedSeats(p)]

\* The requests made for seat id.
Attempts(asked, id) == {p \in Procs : id \in asked[p]}

RowsOf(id) == {b \in bookings : b.seat_id = id}

WithStatus(S, status) == {p \in S : response[p].status = status}

Committed(p) == "commit" \in Range(hist[p])

\* C1: at most one attempt ever commits a booking for a seat, whatever the
\* other attempts do, and at most one committed booking row refers to a seat.
C1_AtMostOneBooking ==
    /\ \A b, c \in bookings : b.seat_id = c.seat_id => b = c
    /\ LET asked == Asked
       IN \A p, q \in Procs :
             (p # q /\ Committed(p) /\ Committed(q)) => asked[p] \cap asked[q] = {}

\* Two attempts on one free seat have returned: one committed, the other had
\* issued its UPDATE and failed.
C1_Witness ==
    \E p, q \in Procs :
        /\ p # q /\ Done(p) /\ Done(q)
        /\ response[p].status = 201
        /\ response[q].status = 500
        /\ "update" \in Range(hist[q])
        /\ \E id \in RequestedSeats(p) \cap RequestedSeats(q) : Cardinality(RowsOf(id)) = 1

\* Exactly one request for seat id got 201, all the others got 409, and the
\* seat has one row and its flag.
SingleWinner(asked, id) ==
    /\ Cardinality(WithStatus(Attempts(asked, id), 201)) = 1
    /\ Cardinality(WithStatus(Attempts(asked, id), 409)) = Cardinality(Attempts(asked, id)) - 1
    /\ Cardinality(RowsOf(id)) = 1
    /\ is_booked[id]

C3_RowIffFlag == \A id \in SeatIds : is_booked[id] <=> RowsOf(id) # {}

\* C4: when dilithium_sign fails after the reference was generated and the
\* encryption succeeded, the attempt ends with the flag of its seat still
\* false and with no booking row for the seat.
C4_SignFailureAtomic ==
    [][\A p \in Procs :
          (/\ ~Done(p)
           /\ Done(p)'
           /\ {"entropy", "encrypt", "sign_failed"} \subseteq Range(hist'[p]))
          => \A id \in RequestedSeats(p)' :
                ~is_booked'[id] /\ {b \in bookings' : b.seat_id = id} = {}]_vars

\* An attempt on an existing seat has returned after its signature failed.
C4_Witness ==
    \E p \in Procs :
        /\ Done(p)
        /\ response[p].status = 500
        /\ {"entropy", "encrypt", "sign_failed"} \subseteq Range(hist[p])
        /\ \E id \in RequestedSeats(p) : ~is_booked[id] /\ RowsOf(id) = {}

Failures == {400, 500}

\* C5: an attempt that ended in a failure other than 404 and 409 has not
\* changed the committed flag of any seat.
C5_FailureLeavesFlag ==
    \A p \in Procs :
        response[p].status \in Failures => \A id \in SeatIds : flipped_by[id] # p

\* An attempt failed after its UPDATE was issued, and its seat is still free.
C5_Witness ==
    \E p \in Procs :
        /\ response[p].status = 500
        /\ "update" \in Range(hist[p])
        /\ \E id \in RequestedSeats(p) : ~is_booked[id]

\* C6: a request that has returned holds no lock and has no open transaction
\* or uncommitted write, and a flag it set has its booking row.
C6_ReturnedReleased ==
    \A p \in Procs :
        Done(p) =>
            /\ response[p].status # 0
            /\ locks[p] = {}
            /\ tx[p] = NoTx
            /\ \A id \in SeatIds :
                  flipped_by[id] = p => \E b \in RowsOf(id) : b.id = response[p].booking_id

\* A request that had locked its seat row was refused with 409 and returned.
C6_Witness ==
    \E p \in Procs :
        /\ Done(p)
        /\ response[p].status = 409
        /\ "select" \in Range(hist[p])

\* The statements between the locking read and COMMIT / ROLLBACK.
Critical == {"check", "entropy", "encrypt", "sign", "update", "insert", "commit"}

\* p is past its locking read, which found a seat, and has not ended its
\* transaction.
InCritical(p) == pc[p] \in Critical /\ loc[p].seat_id # 0

\* C7: at most one attempt per seat is between its locking read and its
\* commit or rollback, and it holds the lock of the seat row all the while.
C7_MutualExclusion ==
    \A p \in Procs :
        InCritical(p) =>
            /\ <<"seats", loc[p].seat_id>> \in locks[p]
            /\ \A q \in Procs \ {p} : InCritical(q) => loc[q].seat_id # loc[p].seat_id

\* One attempt is in its cryptographic calls while another waits for the row.
C7_Witness ==
    \E p, q \in Procs :
        /\ p # q
        /\ pc[p] \in {"encrypt", "sign"}
        /\ pc[q] = "select"
        /\ loc[p].seat_id \in RequestedSeats(q)

\* p waits at its locking read for a seat row that another transaction holds.
Blocked(p) ==
    /\ pc[p] = "select"
    /\ \E id \in RequestedSeats(p) : Conflict(p, <<"seats", id>>)

Outcomes == {201, 400, 404, 409, 500}

WriteOrder == <<"entropy", "encrypt", "sign", "update", "insert">>

IsOrderedStep(e) == e \in Range(WriteOrder)

IsPrefix(a, b) == Len(a) <= Len(b) /\ a = SubSeq(b, 1, Len(a))

\* C9: an attempt generates the reference, then encrypts, then signs, then
\* issues the UPDATE and the INSERT; a write is issued only after all three
\* have succeeded, and none once one of them has failed; what is signed is
\* the reference, the seat id, the flight id and the passenger name.
C9_StepOrder ==
    \A p \in Procs :
        /\ IsPrefix(SelectSeq(hist[p], IsOrderedStep), WriteOrder)
        /\ (tx[p].upd # {} \/ tx[p].ins # {}) => "sign" \in Range(hist[p])
        /\ ({"encrypt_failed", "sign_failed"} \cap Range(hist[p]) # {}
               => {"update", "insert"} \cap Range(hist[p]) = {})
        /\ ("sign" \in Range(hist[p]) /\ ~Done(p))
               => loc[p].dilithium_result.data_hash =
                     sha256_hash(TicketMessage(loc[p].qrng_ref, loc[p].seat_id,
                                               loc[p].flight_id, loc[p].passenger_name))

\* An attempt has run all five steps and holds both uncommitted writes.
C9_Witness ==
    \E p \in Procs :
        /\ SelectSeq(hist[p], IsOrderedStep) = WriteOrder
        /\ tx[p].upd # {}
        /\ tx[p].ins # {}

\* p waits for a seat row lock that q holds.
SeatLockWait(asked, p, q) ==
    /\ pc[p] \in {"select", "update"}
    /\ \E id \in asked[p] : <<"seats", id>> \in locks[q]

\* p waits for a unique key of the bookings table that q holds.
KeyLockWait(p, q) ==
    /\ pc[p] = "insert"
    /\ \/ <<"unique_booking", loc[p].seat_id>> \in locks[q]
       \/ <<"pqc_ref", loc[p].qrng_ref>> \in locks[q]

\* p is the only attempt on its seat, which exists and was free.
Sole(asked, p) ==
    /\ asked[p] # {}
    /\ \A id \in asked[p] : ~PreBooked(id) /\ Attempts(asked, id) = {p}

OwnRow(asked, p) ==
    \E b \in bookings :
        /\ b.id = response[p].booking_id
        /\ b.pqc_ref = response[p].booking_ref
        /\ b.seat_id \in asked[p]

\* C10 as stated: two attempts on two distinct free seats never wait for a
\* lock of the other, and both succeed, each with its own booking row.
C10_Independent ==
    LET asked == Asked
    IN \A p, q \in Procs :
          (p # q /\ Sole(asked, p) /\ Sole(asked, q)) =>
              /\ ~SeatLockWait(asked, p, q)
              /\ ~KeyLockWait(p, q)
              /\ (Done(p) /\ Done(q)) =>
                    /\ response[p].status = 201 /\ OwnRow(asked, p)
                    /\ response[q].status = 201 /\ OwnRow(asked, q)

\* C10 as amended: neither waits for the seat row lock of the other, and
\* each either succeeds with its own booking row or ends in a crypto or
\* storage failure (500).
C10_IndependentSeatLocks ==
    LET asked == Asked
    IN \A p, q \in Procs :
          (p # q /\ Sole(asked, p) /\ Sole(asked, q)) =>
              /\ ~SeatLockWait(asked, p, q)
              /\ Done(p) => response[p].status \in {201, 500}
              /\ (Done(p) /\ response[p].status = 201) => OwnRow(asked, p)
              /\ (Done(p) /\ Done(q) /\ response[p].status = 201 /\ response[q].status = 201)
                    => response[p].booking_id # response[q].booking_id

\* Two attempts on two distinct free seats have both succeeded.
C10_Witness ==
    LET asked == Asked
    IN \E p, q \in Procs :
          /\ p # q /\ Sole(asked, p) /\ Sole(asked, q)
          /\ response[p].status = 201 /\ OwnRow(asked, p)
          /\ response[q].status = 201 /\ OwnRow(asked, q)

\* The number of events of hist[p] that are in E.
Count(p, E) == Cardinality({k \in DOMAIN hist[p] : hist[p][k] \in E})

CheckEvents == {"not_found", "already_booked", "free"}

\* The seat rows p has locked.
SeatLocks(p) == {res[2] : res \in {l \in locks[p] : l[1] = "seats"}}

\* One locking read and one check, on the seat asked for only; a refusal is
\* the last thing the attempt does.
OneLookup(p) ==
    /\ Count(p, {"select"}) <= 1
    /\ Count(p, CheckEvents) <= 1
    /\ SeatLocks(p) \subseteq RequestedSeats(p)
    /\ (loc[p].seat_id # 0 => loc[p].seat_id \in RequestedSeats(p))
    /\ \A k \in DOMAIN hist[p] :
          hist[p][k] \in {"not_found", "already_booked"} =>
              /\ k = Len(hist[p])
              /\ Done(p)
              /\ response[p].status = (IF hist[p][k] = "not_found" THEN 404 ELSE 409)

\* A step of p leaves the flag and the booking rows of every seat it did not
\* ask for as they were.
OtherSeatsUnchanged(p) ==
    \A id \in SeatIds \ RequestedSeats(p)' :
        /\ is_booked'[id] = is_booked[id]
        /\ {b \in bookings' : b.seat_id = id} = RowsOf(id)

\* C11: an attempt makes one locking read and one check, of the seat it asks
\* for; not-found and already-booked end the attempt with 404 and 409; and no
\* step of an attempt changes the flag or the booking rows of another seat.
C11_NoRetryNoSubstitution ==
    /\ [](\A p \in Procs : OneLookup(p))
    /\ [][\A p \in Procs : pc'[p] # pc[p] => OtherSeatsUnchanged(p)]_vars

\* One attempt was refused for a booked seat and another booked a free seat,
\* and only that seat's flag has changed.
C11_Witness ==
    \E p, q \in Procs :
        /\ response[p].status = 409
        /\ hist[p] = <<"begin", "select", "already_booked">>
        /\ response[q].status = 201
        /\ \A id \in SeatIds : is_booked[id] <=> (PreBooked(id) \/ id \in RequestedSeats(q))

\* C12: the committed flag of a seat never goes from true to false, and it
\* goes from false to true only in the commit of an attempt that had issued
\* the UPDATE of that seat; so it changes at most once.
C12_FlagMonotone ==
    [][\A id \in SeatIds :
          /\ is_booked[id] => is_booked'[id]
          /\ is_booked'[id] # is_booked[id] =>
                \E p \in Procs : /\ pc[p] = "commit"
                                 /\ id \in tx[p].upd
                                 /\ Committed(p)'
                                 /\ flipped_by'[id] = p]_vars

\* A seat was booked by a commit; a later attempt on it was refused and
\* rolled back, and a seat listing then showed the seat as booked.
C12_Witness ==
    \E id \in SeatIds : \E q \in Procs :
        /\ flipped_by[id] \notin {0, q}
        /\ id \in RequestedSeats(q)
        /\ response[q].status = 409
        /\ reply.op = "get_seats"
        /\ reply.status = 200
        /\ reply.statistics.booked_seats = Cardinality({i \in SeatIds : is_booked[i]})
        /\ is_booked[id]

\* The attempts that were answered with the id of row b.
Creators(b) == {p \in Procs : response[p].status = 201 /\ response[p].booking_id = b.id}

\* C13: a committed booking row was written by the commit of exactly one
\* attempt, and no step of any handler changes or deletes a committed row.
C13_RowsWriteOnce ==
    /\ [](\A b \in bookings :
             /\ Cardinality(Creators(b)) = 1
             /\ \A c \in bookings : c.id = b.id => c = b)
    /\ [][/\ bookings \subseteq bookings'
          /\ bookings' # bookings =>
                \E p \in Procs : /\ pc[p] = "commit"
                                 /\ Committed(p)'
                                 /\ bookings' \ bookings = tx[p].ins
                                 /\ Cardinality(tx[p].ins) = 1]_vars

\* Two rows were committed by two attempts, and a verification has then read
\* one of them.
C13_Witness ==
    /\ Cardinality(bookings) = 2
    /\ \A p \in Procs : response[p].status = 201
    /\ reply.op = "verify"
    /\ reply.verified

\* p runs its INSERT with a reference that a committed row already carries.
Collides(p) ==
    /\ pc[p] = "insert"
    /\ pc'[p] # pc[p]
    /\ \E b \in bookings : b.pqc_ref = loc[p].qrng_ref

\* C14: no two committed booking rows carry the same reference, and an
\* attempt whose fresh reference is that of a committed row fails (500)
\* with its seat left unbooked and without a row.
C14_UniqueReference ==
    /\ [](\A b, c \in bookings : b.pqc_ref = c.pqc_ref => b = c)
    /\ [][\A p \in Procs :
             Collides(p) =>
                /\ Done(p)'
                /\ response'[p].status = 500
                /\ \A id \in RequestedSeats(p) :
                      ~is_booked'[id] /\ {b \in bookings' : b.seat_id = id} = {}]_vars

\* An attempt drew the reference of the committed row and failed at its
\* INSERT with a duplicate key (which consumes an auto-increment value).
C14_Witness ==
    /\ Cardinality(bookings) = 1
    /\ next_id = 3
    /\ \E p \in Procs :
          /\ response[p].status = 500
          /\ "insert_failed" \in Range(hist[p])
          /\ \E id \in RequestedSeats(p) : ~is_booked[id] /\ RowsOf(id) = {}

\* The reference a verification request carries, as verify_ticket looks it up.
Normalised(data) == Upper(Strip(data.booking_ref.s))

\* The attempts that were answered 201 with the reference data carries.
ConfirmedWith(data) ==
    {p \in Procs : /\ data.json /\ data.has_ref /\ data.booking_ref.ty = "str"
                   /\ response[p].status = 201
                   /\ response[p].booking_ref = Normalised(data)}

\* A verification has been answered in this step.
Verified(data) == reply' # reply /\ reply'.op = "verify" /\ reply'.arg = data

\* C15: a verification of a reference that a confirmation (201) has returned
\* before, and that reaches the store, answers verified = true with the
\* ticket of that reference, whatever was booked or verified in between.
C15_ConfirmedVerifies ==
    [][\A data \in VerifyRequests :
          (Verified(data) /\ ConfirmedWith(data) # {} /\ reply'.error # StorageError)
          => /\ reply'.status = 200
             /\ reply'.success
             /\ reply'.verified
             /\ reply'.ticket.booking_ref = Normalised(data)]_vars

\* The reference of one of two bookings was verified as it was returned.
C15_Witness ==
    /\ reply.op = "verify"
    /\ reply.verified
    /\ \E p \in Procs :
          /\ response[p].status = 201
          /\ reply.arg = VerifyReq(JStr(response[p].booking_ref))
          /\ reply.ticket.booking_ref = response[p].booking_ref
    /\ \E q \in Procs : response[q].status = 201 /\ response[q].booking_ref # reply.ticket.booking_ref

\* data carries a string that is the reference of no committed booking row.
Unknown(data) ==
    /\ data.json /\ data.has_ref /\ data.booking_ref.ty = "str"
    /\ \A b \in bookings : b.pqc_ref # Normalised(data)

\* C16: a verification of a reference that no committed row carries, and
\* that reaches the store, answers 200 with success, verified = false and no
\* ticket, whatever the store holds.
C16_UnknownNotVerified ==
    [][\A data \in VerifyRequests :
          (Verified(data) /\ Unknown(data) /\ reply'.error # StorageError)
          => /\ reply'.status = 200
             /\ reply'.success
             /\ reply'.error = ""
             /\ ~reply'.verified
             /\ reply'.ticket = NoTicket]_vars

\* A fabricated reference was verified against a store that holds a booking.
C16_Witness ==
    /\ bookings # {}
    /\ reply.op = "verify"
    /\ reply.arg = VerifyReq(JStr(Fabricated))
    /\ reply.status = 200
    /\ ~reply.verified

\* What sign(args.data) returns in this process, for each key it can draw.
SignedFor(data) ==
    {c.result : c \in {d \in {SignCall(data, key) : key \in KeyNames} : d.outcome = "returned"}}

\* A text message: non-empty, with a UTF-8 encoding.
TextMessage(data) == data # <<>> /\ Encodable(data)

\* The call is verify(M, sign(M).signature, sign(M).public_key).
RoundTrip(call) ==
    /\ call.op = "verify"
    /\ \E s \in SignedFor(call.args.data) :
          call.args.signature = s.signature /\ call.args.public_key = s.public_key

\* C17: for every non-empty text message M, sign(M) returns, and
\* verify(M, sign(M).signature, sign(M).public_key) returns valid = true,
\* with liboqs (real backend) and without it (simulated backend).
C17_SignVerifyRoundTrip ==
    /\ (reply.op = "sign" /\ TextMessage(reply.args.data)) =>
          /\ reply.outcome = "returned"
          /\ reply.result.mock_mode = ~flags.LIBOQS_AVAILABLE
    /\ (RoundTrip(reply) /\ TextMessage(reply.args.data)) =>
          /\ reply.outcome = "returned"
          /\ reply.result.valid

\* The simulated backend has verified the signature it made of "ab".
C17_Witness ==
    /\ ~flags.LIBOQS_AVAILABLE
    /\ RoundTrip(reply)
    /\ reply.args.data = <<"a", "b">>
    /\ reply.outcome = "returned"
    /\ reply.result.valid
    /\ reply.result.mock_mode

\* C18: verify returns valid = true only for a (message, signature, public
\* key) triple that sign produced: with the message, a byte of the signature
\* or the public key altered, it returns false.
C18_Soundness ==
    (reply.op = "verify" /\ reply.outcome = "returned" /\ reply.result.valid) =>
        RoundTrip(reply)

\* The signature a verifier is handed is not the one sign made: it is
\* tampered, truncated, malformed or empty.
NotGenuine(call) ==
    /\ call.op = "verify"
    /\ TextMessage(call.args.data)
    /\ call.args.public_key # <<>>
    /\ ~hex_to_bytes_raises(call.args.public_key)
    /\ \A s \in SignedFor(call.args.data) : call.args.signature # s.signature

\* C19: for every message and every tampered, truncated, empty or malformed
\* signature, verify returns a result with valid = false: it neither raises
\* nor ends the process.
C19_NeverThrows ==
    NotGenuine(reply) => (reply.outcome = "returned" /\ ~reply.result.valid)

\* The call is decrypt on what encrypt(P) returned.
DecryptOf(call, plaintext) ==
    /\ call.op = "decrypt"
    /\ \E e \in EncryptedFor(plaintext) :
          /\ call.args.ciphertext = e.ciphertext
          /\ call.args.encapsulated_key = e.encapsulated_key
          /\ call.args.nonce = e.nonce
          /\ call.args.private_key = e.private_key

\* C20: for every plaintext P, the empty one included, encrypt(P) returns,
\* and decrypt on the ciphertext, encapsulated key, nonce and private key it
\* returned gives back P, with the real and with the simulated backend.
C20_EncryptDecryptRoundTrip ==
    /\ (reply.op = "encrypt" /\ Encodable(reply.args.plaintext) /\ flags.PYCRYPTODOME_AVAILABLE) =>
          reply.outcome = "returned"
    /\ \A plaintext \in Plaintexts :
          DecryptOf(reply, plaintext) =>
              (reply.outcome = "returned" /\ reply.result.plaintext = plaintext)

\* The call is decrypt on what encrypt(P) returned, with one byte of the
\* ciphertext or of the tag appended to it flipped.
TamperedDecrypt(call, plaintext) ==
    /\ call.op = "decrypt"
    /\ \E e \in EncryptedFor(plaintext) :
          /\ call.args.ciphertext \in CipherVariants(e.ciphertext) \ {e.ciphertext}
          /\ call.args.encapsulated_key = e.encapsulated_key
          /\ call.args.nonce = e.nonce
          /\ call.args.private_key = e.private_key

\* C21: decrypt on a ciphertext of which one byte, of the text or of the tag,
\* was flipped raises the ValueError of the tag comparison (main reports it
\* as the integrity failure); and a decrypt that returns, returns the
\* plaintext that was encrypted, never an altered or partial one.
C21_TamperDetected ==
    \A plaintext \in Plaintexts :
        /\ TamperedDecrypt(reply, plaintext) => reply.outcome = "raised"
        /\ (reply.op = "decrypt" /\ reply.outcome = "returned"
              /\ (DecryptOf(reply, plaintext) \/ TamperedDecrypt(reply, plaintext))) =>
                  reply.result.plaintext = plaintext

\* decrypt has refused the ciphertext of "ab" with its tag byte flipped.
C21_Witness ==
    /\ TamperedDecrypt(reply, <<"a", "b">>)
    /\ b64decode(reply.args.ciphertext)[3].kind = "flipped"
    /\ reply.outcome = "raised"

\* C22: for every requested length, generate_booking_reference returns a
\* string of the requested length clamped to [4, 32], all of whose characters
\* are of BOOKING_CHARSET (which has no I, O, 0, 1), with Qiskit and without:
\* for 8 it has 8 characters, for 2 it has 4.
C22_ReferenceShape ==
    reply.op = "generate_booking_reference" =>
        LET length == reply.args.length
            random_id == reply.result.random_id
            expected == IF length < 4 THEN 4 ELSE IF length > 32 THEN 32 ELSE length
        IN /\ reply.outcome = "returned"
           /\ Len(random_id) = expected
           /\ reply.result.length = expected
           /\ \A k \in 1..Len(random_id) :
                 /\ random_id[k] \in Range(BOOKING_CHARSET)
                 /\ random_id[k] \notin {"I", "O", "0", "1"}
           /\ reply.result.mock_mode = ~flags.QISKIT_AVAILABLE
           /\ length = 8 => Len(random_id) = 8
           /\ length = 2 => Len(random_id) = 4

\* The quantum-circuit backend was asked for 2 characters, measured 1, and
\* returned four, three of them from two calls of randbelow (32, then 31).
C22_Witness ==
    /\ reply.op = "generate_booking_reference"
    /\ flags.QISKIT_AVAILABLE
    /\ reply.args.length = 2
    /\ reply.result.random_id = <<"B", "A", "B", "9">>

\* The step on which a finished request ended.
Ending(p) == hist[p][Len(hist[p])]

\* The failures of the three crypto calls and of the storage.
CryptoOrStorage ==
    {"begin_failed", "encrypt_failed", "sign_failed", "insert_failed", "commit_failed"}

\* Success, conflict and not-found as the caller sees them.
MappedOutcomes(p) ==
    /\ Ending(p) = "commit" =>
          /\ response[p].status = 201
          /\ response[p].booking_id > 0
          /\ response[p].booking_ref # <<>>
    /\ Ending(p) = "already_booked" => response[p].status = 409
    /\ Ending(p) = "not_found" => response[p].status = 404
    /\ response[p].status = 201 => Ending(p) = "commit"
    /\ response[p].status = 409 => Ending(p) = "already_booked"
    /\ response[p].status = 404 => Ending(p) = "not_found"

\* C23 as stated: success yields the confirmation, seat-conflict yields 409,
\* seat-not-found 404, and every other failure the generic server error 500.
C23_OutcomeMapping ==
    \A p \in Procs : Done(p) =>
        /\ MappedOutcomes(p)
        /\ Ending(p) \notin {"commit", "already_booked", "not_found"} => response[p].status = 500

\* C23, amended: success yields the confirmation (201), seat-conflict 409,
\* seat-not-found 404; a request without a body or with a missing or empty
\* field yields the validation outcome 400; a failure of a crypto call or of
\* the storage yields the generic server error 500.
C23_OutcomeMappingValidation ==
    \A p \in Procs : Done(p) =>
        /\ MappedOutcomes(p)
        /\ Ending(p) = "invalid" => response[p].status = 400
        /\ Ending(p) \in CryptoOrStorage => response[p].status = 500
        /\ response[p].status \in {201, 400, 404, 409, 500}

\* One request was refused for a seat already booked; another has failed in
\* the signature step.
C23_Witness ==
    \E p, q \in Procs :
        /\ Done(p) /\ Ending(p) = "already_booked" /\ response[p].status = 409
        /\ Done(q) /\ Ending(q) = "sign_failed" /\ response[q].status = 500

\* The bytes of the symmetric key, of its masked form in the capsule, and of
\* the private key of the signature.
KeyMaterial == Range(AesKey) \cup Range(Xor(AesKey, mock_key_mask)) \cup Range(dilithium_private_key)

\* C24: in every booking confirmation (201) the signature preview and the
\* capsule preview, the two fields made from the cryptographic results,
\* carry no byte of the symmetric key, of its masked form, or of a private key.
C24_NoKeyInConfirmation ==
    \A p \in Procs : response[p].status = 201 =>
        /\ response[p].capsule_preview # <<>>
        /\ response[p].signature_preview # <<>>
        /\ \A k \in 1..Len(response[p].capsule_preview) :
              response[p].capsule_preview[k].b \notin KeyMaterial
        /\ \A k \in 1..Len(response[p].signature_preview) :
              response[p].signature_preview[k].b \notin KeyMaterial

\* A booking was confirmed, with the head of its capsule in the confirmation.
C24_Witness ==
    \E p \in Procs :
        /\ response[p].status = 201
        /\ response[p].capsule_preview = Preview(kyber_encrypt(Strip(req[p].passport.s)).capsule)
        /\ \E b \in bookings : b.id = response[p].booking_id
                                 /\ response[p].capsule_preview = Preview(b.kyber_capsule)

\* The flag that selects the backend of an operation: liboqs for the four
\* post-quantum operations, Qiskit for the booking references.
BackendIsMock(op) ==
    IF op = "generate_booking_reference"
    THEN ~flags.QISKIT_AVAILABLE
    ELSE ~flags.LIBOQS_AVAILABLE

\* The same flag decides both operations.
SameSelection(op, other) ==
    (op = "generate_booking_reference") = (other = "generate_booking_reference")

\* A call of the package that returned a result.
HasReturned(call) ==
    /\ call.op \in {"sign", "verify", "encrypt", "decrypt", "generate_booking_reference"}
    /\ call.outcome = "returned"

\* C25: the availability flags never change after the imports, every call
\* that returns has used the backend the flags select, and a call that
\* follows another of the same selection has used the same backend, whatever
\* the two were given.
C25_BackendFixed ==
    [][/\ flags' = flags
       /\ HasReturned(reply') => reply'.result.mock_mode = BackendIsMock(reply'.op)
       /\ (HasReturned(reply) /\ HasReturned(reply') /\ SameSelection(reply.op, reply'.op))
              => reply'.result.mock_mode = reply.result.mock_mode]_vars

\* With liboqs, a signature was made by the real backend for one message and
\* the process holds the real backend's answer on it.
C25_Witness ==
    /\ flags.LIBOQS_AVAILABLE
    /\ reply.op = "verify"
    /\ reply.outcome = "returned"
    /\ reply.result.mock_mode = FALSE
    /\ Len(reply.args.data) = 1

\* C26: every committed booking row has a non-empty passenger name, and the
\* request that committed it encrypted a non-empty identity document.
C26_NonEmptyInputs ==
    /\ \A b \in bookings : b.passenger_name # <<>>
    /\ \A p \in Procs : Committed(p) => loc[p].passport # <<>>

\* A body with all five fields present and non-empty, of which the flight id
\* is no integer or the name or the document is no string.
Malformed(data) == data.json /\ Missing(data) = {} /\ ParseRaises(data)

\* C27: a finished request with a malformed body got the validation outcome
\* 400.
C27_MalformedIsValidationError ==
    \A p \in Procs : (Done(p) /\ Malformed(req[p])) => response[p].status = 400

\* The request issued its UPDATE and then ended in the except clause, from
\* the INSERT or from conn.commit().
FailedAfterUpdate(p) ==
    /\ Done(p)
    /\ "update" \in Range(hist[p])
    /\ Ending(p) \in {"insert_failed", "commit_failed"}

\* C28: the step in which a request whose UPDATE succeeded returns from a
\* failed INSERT or COMMIT returns 500 and leaves the committed flags and
\* rows as they were: no committed flag was set by the request, no committed
\* row is the one it wrote, and it keeps no uncommitted write and no lock.
C28_WriteFailureRolledBack ==
    [][\A p \in Procs :
          (~Done(p) /\ FailedAfterUpdate(p)') =>
              /\ response'[p].status = 500
              /\ is_booked' = is_booked
              /\ bookings' = bookings
              /\ \A id \in SeatIds : flipped_by'[id] # p
              /\ \A b \in bookings' : b.id # loc[p].booking_id
              /\ tx[p].upd # {}
              /\ tx'[p] = NoTx
              /\ locks'[p] = {}]_vars

\* A request failed in its COMMIT, after the UPDATE and the INSERT, and its
\* seat is free and without a row.
C28_Witness ==
    \E p \in Procs :
        /\ FailedAfterUpdate(p)
        /\ Ending(p) = "commit_failed"
        /\ "insert" \in Range(hist[p])
        /\ response[p].status = 500
        /\ \E id \in RequestedSeats(p) : ~is_booked[id] /\ RowsOf(id) = {}

\* The steps after the check of the seat: the three crypto calls, the two
\* writes and the commit, and their failures.
AfterCheck ==
    {"entropy", "encrypt", "sign", "update", "insert", "commit",
     "encrypt_failed", "sign_failed", "insert_failed", "commit_failed"}

\* C29: a request whose locked lookup finds no seat returns 404, and one
\* that finds the flag of its seat true returns 409; each returns in that
\* step, rolled back, without having run the entropy, the encryption or the
\* signature step and without having issued a write.
C29_EarlyAbort ==
    [][\A p \in Procs :
          (pc[p] = "check" /\ pc'[p] # "check" /\ (SeatMissing(p) \/ SeatTaken(p))) =>
              /\ Done(p)'
              /\ Ending(p)' = (IF SeatMissing(p) THEN "not_found" ELSE "already_booked")
              /\ response'[p].status = (IF SeatMissing(p) THEN 404 ELSE 409)
              /\ Range(hist'[p]) \cap AfterCheck = {}
              /\ tx[p].upd = {} /\ tx[p].ins = {}
              /\ tx'[p] = NoTx
              /\ locks'[p] = {}
              /\ is_booked' = is_booked
              /\ bookings' = bookings
              /\ next_id' = next_id]_vars

\* One request was refused for a missing seat and another for a booked one,
\* and neither ran a later step.
C29_Witness ==
    \E p, q \in Procs :
        /\ Done(p) /\ Ending(p) = "not_found" /\ response[p].status = 404
        /\ Done(q) /\ Ending(q) = "already_booked" /\ response[q].status = 409
        /\ (Range(hist[p]) \cup Range(hist[q])) \cap AfterCheck = {}

\* The processes in which the decryption service can decrypt at all: with
\* PyCryptodome, with or without liboqs.
DecryptorFlags == {f \in QuantumFlags : f.PYCRYPTODOME_AVAILABLE}

\* The private keys a caller of decrypt can hold: the secret keys of the
\* key pairs, and the server's signing key.
PrivateKeys ==
    {bytes_to_hex(Bytes("kyber_secret_key", key, DigestLen)) : key \in KeyNames}
        \cup {bytes_to_hex(dilithium_private_key)}

\* decrypt, in a process with flags f and with a private key, on what a
\* booking row stores: passport_enc, kyber_capsule and encryption_nonce.
DecryptStored(f, b, private_key_hex) ==
    DecryptWith(f, b.passport_enc, b.kyber_capsule, b.encryption_nonce, private_key_hex)

\* C30: for every booking a request committed, decrypt applied to the stored
\* payload, capsule and nonce returns the identity document of the request
\* (as create_booking stripped it), in some process of the decryption
\* service and with some private key.
C30_StoredMaterialDecrypts ==
    \A p \in Procs : response[p].status = 201 =>
        \A b \in bookings : b.id = response[p].booking_id =>
            \E f \in DecryptorFlags, private_key_hex \in PrivateKeys :
                /\ DecryptStored(f, b, private_key_hex).outcome = "returned"
                /\ DecryptStored(f, b, private_key_hex).result.plaintext = Strip(req[p].passport.s)

\* The output contract of generate_booking_reference: a length the
\* validation of the length lets through, and characters of BOOKING_CHARSET.
InReferenceContract(ref) ==
    /\ Clamp(Len(ref)) = Len(ref)
    /\ \A k \in 1..Len(ref) : ref[k] \in Range(BOOKING_CHARSET)

\* C31: every booking reference stored in bookings.pqc_ref has a length
\* from 4 to 32 and only characters of the alphabet without I, O, 0 and 1.
C31_StoredReferenceContract == \A b \in bookings : InReferenceContract(b.pqc_ref)

\* An upper-case hexadecimal digit.
IsUpperHex(c) == IsDigit(c) \/ \E k \in 1..6 : UpperChars[k] = c

\* QREF-XXXX-XXXX-XXXX, each X an upper-case hexadecimal digit.
IsQref(ref) ==
    /\ Len(ref) = 19
    /\ SubSeq(ref, 1, 5) = <<"Q", "R", "E", "F", "-">>
    /\ ref[10] = "-" /\ ref[15] = "-"
    /\ \A k \in (6..19) \ {10, 15} : IsUpperHex(ref[k])

\* Every reference generate_quantum_entropy can return has the format and
\* is left as it is by strip() and upper().
NormalQrefs == \A ref \in QuantumRefs : IsQref(ref) /\ Upper(Strip(ref)) = ref

\* The committed rows with the id of the confirmation of p.
ConfirmedRows(p) == {b \in bookings : b.id = response[p].booking_id}

\* C32: every reference generate_quantum_entropy can return has the format
\* QREF-XXXX-XXXX-XXXX in upper-case hexadecimal digits and is left as it is
\* by strip() and upper(), every stored reference and every one returned in
\* a confirmation is such a reference; and a verification that reaches the store with
\* the reference of a confirmation, as returned or in lower case between
\* blanks, selects the one row of that confirmation and answers its ticket.
C32_ReferenceFormatLookup ==
    [][/\ NormalQrefs
       /\ \A b \in bookings' : b.pqc_ref \in QuantumRefs
       /\ \A p \in Procs : response'[p].status = 201 => response'[p].booking_ref \in QuantumRefs
       /\ \A data \in VerifyRequests :
             (Verified(data) /\ ConfirmedWith(data) # {} /\ reply'.error # StorageError)
             => \A p \in ConfirmedWith(data) :
                   /\ BookingsByRef(Normalised(data)) = ConfirmedRows(p)
                   /\ \E b \in ConfirmedRows(p) :
                         /\ ConfirmedRows(p) = {b}
                         /\ reply'.ticket = Ticket(b)
                         /\ b.pqc_ref = response[p].booking_ref]_vars

\* A confirmed reference was sent in lower case between blanks and the
\* verification answered the ticket with the reference as it was returned.
C32_Witness ==
    /\ reply.op = "verify"
    /\ reply.status = 200
    /\ reply.arg = VerifyReq(JStr(Retyped(generate_quantum_entropy(TokenBytes(1)))))
    /\ reply.arg.booking_ref.s # reply.ticket.booking_ref
    /\ reply.ticket.booking_ref = generate_quantum_entropy(TokenBytes(1))
    /\ \E p \in Procs : response[p].status = 201 /\ response[p].booking_ref = reply.ticket.booking_ref

\* The seats a seat map lists.
Listed(seat_map) ==
    {seat_map[r].seats[c] : r \in DOMAIN seat_map, c \in 1..NumCols}

\* A seat listing, or a verification that found a ticket, has been answered
\* in this step.
Answered(op) == reply' # reply /\ reply'.op = op /\ reply'.status = 200

\* The flag of the seat is written by an open transaction only.
FlagUncommitted(id) == ~is_booked[id] /\ \E p \in Procs : id \in tx[p].upd

\* C33: a seat listing answered while bookings are in progress shows for
\* each seat the committed flag: false for a seat whose flag only an open
\* transaction has set, and true only for a seat flagged by init_db or by a
\* committed request, whose booking row is then committed too; and a
\* verification answers the ticket of a committed row only, whose seat is
\* flagged.
C33_ReadersSeeCommitted ==
    [][/\ Answered("get_seats") =>
            \A s \in Listed(reply'.seat_map) :
                /\ s.is_booked = is_booked[s.id]
                /\ FlagUncommitted(s.id) => ~s.is_booked
                /\ (s.is_booked /\ ~PreBooked(s.id)) =>
                       /\ flipped_by[s.id] \in Procs
                       /\ Committed(flipped_by[s.id])
                       /\ RowsOf(s.id) # {}
       /\ (Answered("verify") /\ reply'.ticket # NoTicket) =>
            \E b \in bookings :
                /\ Ticket(b) = reply'.ticket
                /\ is_booked[b.seat_id]
                /\ \A p \in Procs : b \notin tx[p].ins]_vars

\* A listing shows a seat a committed request has booked, and shows free a
\* seat whose flag an open transaction has set.
C33_Witness ==
    /\ reply.op = "get_seats"
    /\ reply.status = 200
    /\ \E s, t \in Listed(reply.seat_map) :
          /\ s.is_booked /\ flipped_by[s.id] \in Procs /\ RowsOf(s.id) # {}
          /\ ~t.is_booked /\ FlagUncommitted(t.id)

\* C34: a request answered 201 has committed, as its last step, and the id
\* and the reference of its confirmation are those of one committed booking
\* row, which is for the seat the request asked for, whose flag is true.
C34_SuccessIsDurable ==
    \A p \in Procs : response[p].status = 201 =>
        /\ Done(p)
        /\ Ending(p) = "commit"
        /\ \E b \in bookings :
              /\ b.id = response[p].booking_id
              /\ b.pqc_ref = response[p].booking_ref
              /\ b.seat_id \in RequestedSeats(p)
              /\ is_booked[b.seat_id]
              /\ \A other \in bookings :
                    (other.id = b.id \/ other.pqc_ref = b.pqc_ref \/ other.seat_id = b.seat_id)
                    => other = b

\* Both requests were confirmed, each with a row of its own.
C34_Witness ==
    /\ \A p \in Procs : response[p].status = 201
    /\ Cardinality(bookings) = NumProcs
    /\ \A p \in Procs : \E b \in bookings : b.id = response[p].booking_id /\ is_booked[b.seat_id]

\* C35: every call of bits_to_booking_ref with a non-empty bit string and
\* a non-empty charset returns, with exactly `length` characters, each of the
\* charset; and so does the quantum-circuit backend of
\* generate_booking_reference, which calls it on 6 bits per character.
C35_BitsToRefTotal ==
    /\ reply.op = "bits_to_booking_ref" =>
          /\ reply.outcome = "returned"
          /\ Len(reply.result.random_id) = reply.args.length
          /\ \A k \in 1..Len(reply.result.random_id) :
                reply.result.random_id[k] \in Range(reply.args.charset)
    /\ (reply.op = "generate_booking_reference" /\ ~reply.result.mock_mode) =>
          /\ reply.outcome = "returned"
          /\ Len(reply.result.random_id) = Clamp(reply.args.length)

\* A measurement of 192 zeros was converted to 32 characters: the accumulator
\* was zero from the start and each replacement was zero, which gives the
\* first character of the charset 32 times.
C35_Witness ==
    /\ reply.op = "bits_to_booking_ref"
    /\ reply.args.bits = [k \in 1..(6 * MAX_LENGTH) |-> "0"]
    /\ reply.args.charset = BOOKING_CHARSET
    /\ reply.args.length = MAX_LENGTH
    /\ reply.result.random_id = [k \in 1..MAX_LENGTH |-> BOOKING_CHARSET[1]]

\* dilithium_verify on the fields of a bookings row, as verify_ticket calls it.
VerifyRow(b) ==
    dilithium_verify(b.pqc_ref, b.seat_id, b.flight_id, b.passenger_name,
                     b.pqc_signature, b.ticket_data_hash)

\* Other values of the text fields of a row.
OtherRefs == QuantumRefs \cup {Fabricated}

OtherNames == {<<"E", "v", "e">>, <<"A", "d", "a">>, <<"A", "d">>, <<>>}

\* hex_string with the digit at place k replaced by the digit of another byte
AlteredDigit(hex_string, k) ==
    [hex_string EXCEPT ![k] = HexDigit(Flip(hex_string[k].b), hex_string[k].half)]

\* The rows that differ from b in one of: the reference, the seat id, the
\* flight id, the passenger name, one digit of the content hash (or the hash
\* of another ticket), one of the leading bytes of the signature that hold
\* the HMAC.
TamperedRows(b) ==
    ({[b EXCEPT !.pqc_ref = v] : v \in OtherRefs}
     \cup {[b EXCEPT !.seat_id = v] : v \in SeatIds}
     \cup {[b EXCEPT !.flight_id = v] : v \in FlightIds \cup {NumFlights + 1}}
     \cup {[b EXCEPT !.passenger_name = v] : v \in OtherNames}
     \cup {[b EXCEPT !.ticket_data_hash = AlteredDigit(b.ticket_data_hash, k)] :
              k \in 1..Len(b.ticket_data_hash)}
     \cup {[b EXCEPT !.ticket_data_hash = sha256_hash(TicketMessage(v, b.seat_id, b.flight_id,
                                                                    b.passenger_name))] :
              v \in OtherRefs}
     \cup {[b EXCEPT !.pqc_signature = FlippedAt(b.pqc_signature, k)] : k \in 1..DigestLen})
    \ {b}

\* C36: for every committed booking row, dilithium_verify on the row as
\* stored is true, and on the row with one of the reference, the seat id, the
\* flight id, the passenger name, the content hash, or one of the leading
\* bytes of the signature changed it is false.
C36_StoredTicketTamperEvident ==
    \A b \in bookings :
        /\ VerifyRow(b)
        /\ \A t \in TamperedRows(b) : ~VerifyRow(t)

\* Two bookings are committed, and the row of one with the reference of the
\* other, or with an altered signature, is among those refused.
C36_Witness ==
    \E b, c \in bookings :
        /\ b.pqc_ref # c.pqc_ref
        /\ [b EXCEPT !.pqc_ref = c.pqc_ref] \in TamperedRows(b)
        /\ [b EXCEPT !.pqc_signature = FlippedAt(b.pqc_signature, DigestLen)] \in TamperedRows(b)
        /\ Cardinality(TamperedRows(b)) > 6
        /\ VerifyRow(b) /\ VerifyRow(c)

\* A call of sign that returned from the simulated backend.
SignedMock(call) == call.op = "sign" /\ call.outcome = "returned" /\ call.result.mock_mode

\* C37: in the simulated backend a call of sign that follows another on the
\* same message returns the same signature, of the same length.
C37_MockSignatureDeterministic ==
    [][(SignedMock(reply) /\ SignedMock(reply') /\ reply'.args.data = reply.args.data)
          => /\ Len(reply'.result.signature) = Len(reply.result.signature)
             /\ reply'.result.signature = reply.result.signature]_vars

\* A request without a JSON body, or with a required field absent or empty
\* ('' or 0).
Incomplete(data) == ~data.json \/ \E f \in Required : ~Truthy(data[f])

\* C38: a request without a body or with a missing or empty field is
\* answered 400 in the step that receives it, as its only step: no
\* connection is opened and no transaction begun, no lock is taken, and the
\* committed store, the open transactions and the id counter are unchanged.
C38_InvalidBeforeStorage ==
    [][\A p \in Procs :
          (pc[p] = "idle" /\ pc'[p] # "idle" /\ Incomplete(req'[p])) =>
              /\ Done(p)'
              /\ response'[p].status = 400
              /\ hist'[p] = <<"invalid">>
              /\ tx' = tx /\ tx'[p] = NoTx
              /\ locks' = locks /\ locks'[p] = {}
              /\ is_booked' = is_booked
              /\ bookings' = bookings
              /\ next_id' = next_id]_vars

\* A request with an empty name was refused while the other request held
\* the lock of its seat in an open transaction.
C38_Witness ==
    \E p, q \in Procs :
        /\ Done(p) /\ response[p].status = 400 /\ hist[p] = <<"invalid">>
        /\ req[p].json /\ req[p].name = JStr(<<>>)
        /\ tx[q].active /\ locks[q] # {}

\* The operations that answer into reply: verify, seat listing and health.
ReadOps == {"verify", "get_seats", "health"}

\* The sets of seats a book request would find locked by another one.
LockedForOthers == [p \in Procs |-> UNION {locks[q] : q \in Procs \ {p}}]

\* C39: a verification, a seat listing and a health query, whatever they are
\* asked and whatever they answer (200, 400, 404, 500, a storage error),
\* leave every seat flag and every booking row unchanged, write nothing into
\* any open transaction, and take no lock: the seats a book request finds
\* locked are the same before and after, and no book request has moved.
C39_ReadersReadOnly ==
    [][reply' # reply =>
          /\ reply'.op \in ReadOps
          /\ is_booked' = is_booked
          /\ bookings' = bookings
          /\ next_id' = next_id
          /\ flipped_by' = flipped_by
          /\ tx' = tx
          /\ locks' = locks
          /\ LockedForOthers' = LockedForOthers
          /\ pc' = pc /\ response' = response /\ hist' = hist]_vars

\* A verification has answered the ticket of a committed row as genuine, and
\* the row and the flag of its seat are there, while another request holds
\* the lock of its seat in an open transaction.
C39_Witness ==
    /\ reply.op = "verify" /\ reply.status = 200 /\ reply.verified
    /\ \E b \in bookings : Ticket(b) = reply.ticket /\ is_booked[b.seat_id]
    /\ \E q \in Procs : tx[q].active /\ locks[q] # {} /\ tx[q].upd # {}

\* The steps after the seat was found free: the crypto calls, the two
\* writes, the flight lookup and the commit.
WritePhase == {"entropy", "encrypt", "sign", "update", "insert", "commit"}

\* The request names a flight that is not in the flights table.
NamesMissingFlight(p) ==
    Started(p) /\ Wellformed(req[p]) /\ Parsed(req[p]).flight_id \notin FlightIds

\* C40: a request naming a flight that does not exist never gets past the
\* seat lookup: once its lookup has run it ends "not found" with 404 and
\* writes nothing.  A request in the write phase holds a seat of the flight
\* it names, which exists, so its flight lookup finds a row: every request
\* that has committed is answered 201, never 500.
C40_FlightExistsWithSeat ==
    \A p \in Procs :
        /\ NamesMissingFlight(p) =>
              /\ pc[p] \notin WritePhase
              /\ Range(hist[p]) \cap AfterCheck = {}
              /\ (Done(p) /\ "select" \in Range(hist[p])) =>
                     /\ Ending(p) = "not_found"
                     /\ response[p].status = 404
              /\ \A b \in bookings \cup tx[p].ins :
                     b.flight_id # Parsed(req[p]).flight_id
        /\ pc[p] \in WritePhase =>
              /\ loc[p].flight_id \in FlightIds
              /\ loc[p].seat_id \in SeatIds
              /\ SeatFlight(loc[p].seat_id) = loc[p].flight_id
        /\ (Done(p) /\ Committed(p)) => response[p].status = 201

\* A request naming flight 9 was answered 404 after its lookup, and the
\* other request, for a flight that exists, has committed and was
\* answered 201.
C40_Witness ==
    \E p, q \in Procs :
        /\ NamesMissingFlight(p) /\ Done(p)
        /\ hist[p] = <<"begin", "select", "not_found">>
        /\ response[p].status = 404
        /\ Done(q) /\ Committed(q) /\ response[q].status = 201

====
